---- MODULE Spec2Model ----
(***************************************************************************)
(* Model of the classification-code validation-and-retry loop of           *)
(* el-buen-editor: the Cloud Function getEditorialAnalysis                  *)
(* (functions/src/index.ts), its validator detectInvalidCodes, its          *)
(* normalizer normalizeClassifications / normalizeClassificationItems, its  *)
(* correction-prompt builder buildCorrectionPrompt and the module-level     *)
(* vocabulary sets and maps; and of the whitelist access of AuthProvider    *)
(* (contexts/AuthContext.tsx).                                              *)
(*                                                                         *)
(* Strings that the code concatenates (prompts) are sequences of string    *)
(* tokens; a.join(sep) and a + b are modelled on those sequences.           *)
(* JavaScript's undefined / missing members are modelled explicitly: a      *)
(* parsed JSON object carries the set of members it has.                    *)
(***************************************************************************)
EXTENDS Integers, Sequences, FiniteSets, TLC

(***************************************************************************)
(* Bounds of the model.                                                    *)
(***************************************************************************)
\* longest tag array of a candidate drawn for the pure-function checks
MaxTags == 3
\* longest tier array (in the tier that is varied) for the pure-function checks
MaxItems == 2

(***************************************************************************)
(* Static vocabulary data (functions/src/data/*.ts).  Small lists in the   *)
(* shape the code imports: ETIQUETAS is a list of strings, MATERIAS_* are   *)
(* lists of {code, description}.  "FH" is a code of both THEMA and IBIC,    *)
(* with different descriptions; "FB" exists only in THEMA, "FA" only in     *)
(* IBIC.                                                                    *)
(***************************************************************************)
ETIQUETAS == <<"novela", "thriller">>

MATERIAS_BISAC ==
  << [code |-> "FIC000000", description |-> "Fiction / General"],
     [code |-> "FIC031000", description |-> "Fiction / Thrillers"] >>

MATERIAS_THEMA ==
  << [code |-> "FB", description |-> "Ficcion: general y literaria"],
     [code |-> "FH", description |-> "Thriller / suspense"] >>

MATERIAS_IBIC ==
  << [code |-> "FA", description |-> "Ficcion moderna y contemporanea"],
     [code |-> "FH", description |-> "Obras de suspense y thriller"] >>

NORMAS_ORTOTIPOGRAFICAS == "# NORMAS ORTOTIPOGRAFICAS"

(***************************************************************************)
(* JavaScript helpers.                                                     *)
(***************************************************************************)
\* new Set(list): the set of the list's elements
SetOf(list) == {list[i] : i \in 1..Len(list)}

\* list.map((m) => m.code)
Codes(list) == [i \in 1..Len(list) |-> list[i].code]

\* new Map(list.map((m) => [m.code, m.description])): a later entry of the
\* same key overwrites an earlier one
MapOf(list) ==
  [c \in SetOf(Codes(list)) |->
     LET last == CHOOSE i \in 1..Len(list) :
                   /\ list[i].code = c
                   /\ \A j \in 1..Len(list) : list[j].code = c => j <= i
     IN  list[last].description]

\* a.join(sep), on token sequences
RECURSIVE Join(_, _)
Join(a, sep) ==
  IF Len(a) = 0 THEN <<>>
  ELSE IF Len(a) = 1 THEN <<a[1]>>
  ELSE <<a[1], sep>> \o Join(Tail(a), sep)

\* parts.join(""), where every part is a token sequence
RECURSIVE Concat(_)
Concat(parts) ==
  IF Len(parts) = 0 THEN <<>> ELSE parts[1] \o Concat(Tail(parts))

(***************************************************************************)
(* State.                                                                  *)
(***************************************************************************)
VARIABLES
  store,          \* the module-level vocabulary sets and maps
  pc,             \* per request: "idle" | "awaitGateway" | "done"
  request,        \* per request: the HTTP request (method, body.text, body.wordCount)
  attempt,        \* per request: let attempt
  currentPrompt,  \* per request: let currentPrompt
  resultJson,     \* per request: let resultJson (Null before the first parse)
  validation,     \* per request: let validation (Null before the first validation)
  response,       \* per request: what response.status(..).send/json(..) sent
  gatewayCalls,   \* per request: number of ai.models.generateContent calls issued
  returned,       \* per request: the value parsed from the latest gateway text
  log,            \* per request: what each gateway call came back with, in order
  sent,           \* per request: the contents of each generateContent call, in order
  validated,      \* per request: what detectInvalidCodes returned, per attempt
  caught,         \* per request: the error the catch block received (Null if none)
  received,       \* per request: what each gateway call came back with, in full
  corrections,    \* per request: the buildCorrectionPrompt calls made, in order
  sends,          \* per request: number of response.status(..).send/json(..) calls
  x,              \* pure-function checks: the candidate drawn
  nx,             \* normalizedResult(x), once applied
  nnx,            \* normalizedResult(nx), once applied
  vnx,            \* detectInvalidCodes(nx), once applied
  vx,             \* detectInvalidCodes(x), once applied
  cp,             \* buildCorrectionPrompt(vx), once applied
  x0,             \* pure-function checks: a copy of the candidate as drawn
  vx2,            \* detectInvalidCodes(x) called once more, once applied
  authUser,       \* AuthProvider: Firebase's auth.currentUser
  user,           \* AuthProvider: the user state exposed through the context
  loading,        \* AuthProvider: the loading state
  authEvents,     \* auth state changes not yet delivered to the listener
  popups,         \* signInWithPopup calls awaiting the provider
  signInResults,  \* signInWithGoogle continuations after signInWithPopup
  signOutsCalled,    \* signOut calls in flight, by caller
  signOutsResolved,  \* signOut calls resolved whose caller has not resumed
  authOps,        \* number of signInWithGoogle and logout calls so far
  everSignedIn,   \* accounts the provider has signed in so far
  isLoading,      \* App: the isLoading state, passed to FileUploader as disabled
  loadingMessage, \* App: the loadingMessage state
  analysisResult, \* App: the analysisResult state
  uploadError,    \* App: the error state
  isTitleModalOpen,     \* App: the title modal flag
  isCitationModalOpen,  \* App: the citation modal flag
  runs            \* App: the handleFileUpload calls so far, each at its await

handlerVars == <<pc, request, attempt, currentPrompt, resultJson, validation,
                 response, gatewayCalls, returned, log, sent, validated, caught,
                 received, corrections, sends>>
pureVars == <<x, nx, nnx, vnx, vx, cp, x0, vx2>>
authVars == <<authUser, user, loading, authEvents, popups, signInResults,
              signOutsCalled, signOutsResolved, authOps, everSignedIn>>
uploadVars == <<isLoading, loadingMessage, analysisResult, uploadError,
                isTitleModalOpen, isCitationModalOpen, runs>>
vars == <<store, handlerVars, pureVars, authVars, uploadVars>>

\* JavaScript null / undefined / "not yet there"
Null == [null |-> TRUE]

(***************************************************************************)
(* Vocabulary store: built once when the module is loaded.                 *)
(***************************************************************************)
BuildStoreFrom(etiquetas, bisac, thema, ibic) ==
  [ VALID_ETIQUETAS   |-> SetOf(etiquetas),
    VALID_BISAC_CODES |-> SetOf(Codes(bisac)),
    VALID_THEMA_CODES |-> SetOf(Codes(thema)),
    VALID_IBIC_CODES  |-> SetOf(Codes(ibic)),
    BISAC_MAP         |-> MapOf(bisac),
    THEMA_MAP         |-> MapOf(thema),
    IBIC_MAP          |-> MapOf(ibic) ]

BuildStore == BuildStoreFrom(ETIQUETAS, MATERIAS_BISAC, MATERIAS_THEMA, MATERIAS_IBIC)

VALID_ETIQUETAS == store.VALID_ETIQUETAS
VALID_BISAC_CODES == store.VALID_BISAC_CODES
VALID_THEMA_CODES == store.VALID_THEMA_CODES
VALID_IBIC_CODES == store.VALID_IBIC_CODES
BISAC_MAP == store.BISAC_MAP
THEMA_MAP == store.THEMA_MAP
IBIC_MAP == store.IBIC_MAP

(***************************************************************************)
(* Code Validator.                                                         *)
(***************************************************************************)
\* const getInvalidCodes = (classification, validCodes) => ...
\* mutant: the related tier is not looked at
getInvalidCodes_skipsRelated(classification, validCodes) ==
  LET allItems == classification.main \o classification.secondary
      invalidItems == SelectSeq(allItems, LAMBDA item : item.code \notin validCodes)
  IN  [i \in 1..Len(invalidItems) |-> invalidItems[i].code]

getInvalidCodes(classification, validCodes) ==
  LET allItems == classification.main \o classification.secondary
                    \o classification.related
      invalidItems == SelectSeq(allItems, LAMBDA item : item.code \notin validCodes)
  IN  [i \in 1..Len(invalidItems) |-> invalidItems[i].code]

\* mutant: isValid is computed without the tags
detectInvalidCodes_ignoresTags(result) ==
  LET invalidTags == SelectSeq(result.tags, LAMBDA tag : tag \notin VALID_ETIQUETAS)
      invalidBisac == getInvalidCodes(result.classifications.bisac, VALID_BISAC_CODES)
      invalidThema == getInvalidCodes(result.classifications.thema, VALID_THEMA_CODES)
      invalidIbic == getInvalidCodes(result.classifications.ibic, VALID_IBIC_CODES)
      isValid == /\ Len(invalidBisac) = 0
                 /\ Len(invalidThema) = 0
                 /\ Len(invalidIbic) = 0
  IN  [ isValid |-> isValid, invalidTags |-> invalidTags,
        invalidBisac |-> invalidBisac, invalidThema |-> invalidThema,
        invalidIbic |-> invalidIbic ]

detectInvalidCodes(result) ==
  LET invalidTags == SelectSeq(result.tags, LAMBDA tag : tag \notin VALID_ETIQUETAS)
      invalidBisac == getInvalidCodes(result.classifications.bisac, VALID_BISAC_CODES)
      invalidThema == getInvalidCodes(result.classifications.thema, VALID_THEMA_CODES)
      invalidIbic == getInvalidCodes(result.classifications.ibic, VALID_IBIC_CODES)
      isValid == /\ Len(invalidTags) = 0
                 /\ Len(invalidBisac) = 0
                 /\ Len(invalidThema) = 0
                 /\ Len(invalidIbic) = 0
  IN  [ isValid |-> isValid, invalidTags |-> invalidTags,
        invalidBisac |-> invalidBisac, invalidThema |-> invalidThema,
        invalidIbic |-> invalidIbic ]

(***************************************************************************)
(* Result Normalizer.                                                      *)
(***************************************************************************)
\* codeMap.get(item.code) || item.description: Map.get gives undefined for a
\* missing key, and || falls through on undefined and on the empty string
officialOrOwn(codeMap, item) ==
  IF item.code \in DOMAIN codeMap /\ codeMap[item.code] # ""
    THEN codeMap[item.code]
    ELSE item.description

\* mutant: the filter on validCodes is left out
normalizeClassificationItems_noFilter(items, validCodes, codeMap) ==
  [i \in 1..Len(items) |->
     [items[i] EXCEPT !.description = officialOrOwn(codeMap, items[i])]]

\* mutant: find instead of filter, only the first valid item is kept
normalizeClassificationItems_keepsFirst(items, validCodes, codeMap) ==
  LET kept == SelectSeq(items, LAMBDA item : item.code \in validCodes)
      first == IF Len(kept) = 0 THEN kept ELSE <<kept[1]>>
  IN  [i \in 1..Len(first) |->
         [first[i] EXCEPT !.description = officialOrOwn(codeMap, first[i])]]

\* mutant: the kept items come out in reverse order
normalizeClassificationItems_reversed(items, validCodes, codeMap) ==
  LET kept == SelectSeq(items, LAMBDA item : item.code \in validCodes)
  IN  [i \in 1..Len(kept) |->
         [kept[Len(kept) + 1 - i] EXCEPT
            !.description = officialOrOwn(codeMap, kept[Len(kept) + 1 - i])]]

normalizeClassificationItems(items, validCodes, codeMap) ==
  LET kept == SelectSeq(items, LAMBDA item : item.code \in validCodes)
  IN  [i \in 1..Len(kept) |->
         [kept[i] EXCEPT !.description = officialOrOwn(codeMap, kept[i])]]

\* mutant: main and secondary are built from each other's items
normalizeSubject_swapped(subject, validCodes, codeMap) ==
  [ main      |-> normalizeClassificationItems(subject.secondary, validCodes, codeMap),
    secondary |-> normalizeClassificationItems(subject.main, validCodes, codeMap),
    related   |-> normalizeClassificationItems(subject.related, validCodes, codeMap) ]

\* const normalizeSubject = (subject, validCodes, codeMap) => ({...})
normalizeSubject(subject, validCodes, codeMap) ==
  [ main      |-> normalizeClassificationItems(subject.main, validCodes, codeMap),
    secondary |-> normalizeClassificationItems(subject.secondary, validCodes, codeMap),
    related   |-> normalizeClassificationItems(subject.related, validCodes, codeMap) ]

\* mutant: THEMA is normalized against the IBIC set and map
normalizeClassifications_wrongSet(classifications) ==
  [ bisac |-> normalizeSubject(classifications.bisac, VALID_BISAC_CODES, BISAC_MAP),
    thema |-> normalizeSubject(classifications.thema, VALID_IBIC_CODES, IBIC_MAP),
    ibic  |-> normalizeSubject(classifications.ibic, VALID_IBIC_CODES, IBIC_MAP) ]

normalizeClassifications(classifications) ==
  [ bisac |-> normalizeSubject(classifications.bisac, VALID_BISAC_CODES, BISAC_MAP),
    thema |-> normalizeSubject(classifications.thema, VALID_THEMA_CODES, THEMA_MAP),
    ibic  |-> normalizeSubject(classifications.ibic, VALID_IBIC_CODES, IBIC_MAP) ]

\* mutant: the tags are copied from resultJson unfiltered
normalizedResult_keepsTags(result) ==
  [ result EXCEPT
      !.classifications = normalizeClassifications(result.classifications) ]

\* const normalizedResult = {...resultJson, tags: ..., classifications: ...}
normalizedResult(result) ==
  [ result EXCEPT
      !.tags = SelectSeq(result.tags, LAMBDA tag : tag \in VALID_ETIQUETAS),
      !.classifications = normalizeClassifications(result.classifications) ]

\* mutant: the filter is done in place, on the arrays of the candidate
candidateAfterNormalize_inPlace(result) == normalizedResult(result)

\* the candidate object after the normalization: filter, map and the spreads
\* build new arrays and new objects, nothing is assigned into the candidate
candidateAfterNormalize(result) == result

\* the candidate object after detectInvalidCodes: filter, map and the spread
\* into allItems build new arrays
candidateAfterDetect(result) == result

(***************************************************************************)
(* Correction Prompt Builder.                                              *)
(***************************************************************************)
\* mutant: the IBIC block lists the THEMA codes
buildCorrectionPrompt_ibicFromThema(v) ==
  LET head == << <<"# CORRECCION REQUERIDA - CODIGOS RECHAZADOS">>,
                 <<"Tu respuesta anterior contenia codigos INVALIDOS">> >>
      tagsPart ==
        IF Len(v.invalidTags) > 0
          THEN << <<"**Etiquetas rechazadas** (NO existen): ">>
                    \o Join(v.invalidTags, ", ")
                    \o <<"-> Reemplazalas por etiquetas de la LISTA CERRADA">> >>
          ELSE <<>>
      bisacPart ==
        IF Len(v.invalidBisac) > 0
          THEN << <<"**Codigos BISAC rechazados** (NO existen): ">>
                    \o Join(v.invalidBisac, ", ")
                    \o <<"-> Usa SOLO codigos del LISTADO DE MATERIAS BISAC">> >>
          ELSE <<>>
      themaPart ==
        IF Len(v.invalidThema) > 0
          THEN << <<"**Codigos THEMA rechazados** (NO existen): ">>
                    \o Join(v.invalidThema, ", ")
                    \o <<"-> Usa SOLO codigos del LISTADO DE MATERIAS THEMA">> >>
          ELSE <<>>
      ibicPart ==
        IF Len(v.invalidIbic) > 0
          THEN << <<"**Codigos IBIC rechazados** (NO existen): ">>
                    \o Join(v.invalidThema, ", ")
                    \o <<"-> Usa SOLO codigos del LISTADO DE MATERIAS IBIC">> >>
          ELSE <<>>
      tail == << <<"**IMPORTANTE**: Revisa los listados proporcionados">> >>
  IN  Concat(head \o tagsPart \o bisacPart \o themaPart \o ibicPart \o tail)

buildCorrectionPrompt(v) ==
  LET head == << <<"# CORRECCION REQUERIDA - CODIGOS RECHAZADOS">>,
                 <<"Tu respuesta anterior contenia codigos INVALIDOS">> >>
      tagsPart ==
        IF Len(v.invalidTags) > 0
          THEN << <<"**Etiquetas rechazadas** (NO existen): ">>
                    \o Join(v.invalidTags, ", ")
                    \o <<"-> Reemplazalas por etiquetas de la LISTA CERRADA">> >>
          ELSE <<>>
      bisacPart ==
        IF Len(v.invalidBisac) > 0
          THEN << <<"**Codigos BISAC rechazados** (NO existen): ">>
                    \o Join(v.invalidBisac, ", ")
                    \o <<"-> Usa SOLO codigos del LISTADO DE MATERIAS BISAC">> >>
          ELSE <<>>
      themaPart ==
        IF Len(v.invalidThema) > 0
          THEN << <<"**Codigos THEMA rechazados** (NO existen): ">>
                    \o Join(v.invalidThema, ", ")
                    \o <<"-> Usa SOLO codigos del LISTADO DE MATERIAS THEMA">> >>
          ELSE <<>>
      ibicPart ==
        IF Len(v.invalidIbic) > 0
          THEN << <<"**Codigos IBIC rechazados** (NO existen): ">>
                    \o Join(v.invalidIbic, ", ")
                    \o <<"-> Usa SOLO codigos del LISTADO DE MATERIAS IBIC">> >>
          ELSE <<>>
      tail == << <<"**IMPORTANTE**: Revisa los listados proporcionados">> >>
  IN  Concat(head \o tagsPart \o bisacPart \o themaPart \o ibicPart \o tail)

(***************************************************************************)
(* JavaScript values of the request body.  A string is known by its        *)
(* length in characters.                                                   *)
(***************************************************************************)
JsUndefined == [type |-> "undefined", len |-> 0, num |-> 0]
JsString(n) == [type |-> "string", len |-> n, num |-> 0]
JsNumber(n) == [type |-> "number", len |-> 0, num |-> n]

\* mutant: only a missing member is refused, an empty string goes through
Falsy_onlyUndefined(v) == v.type = "undefined"

\* !v
Falsy(v) ==
  \/ v.type = "undefined"
  \/ v.type = "string" /\ v.len = 0
  \/ v.type = "number" /\ v.num = 0

\* text.substring(0, 800000)
PROMPT_TEXT_LIMIT == 800000
substring(text, limit) ==
  JsString(IF text.len < limit THEN text.len ELSE limit)

(***************************************************************************)
(* Retry Orchestrator: getEditorialAnalysis.                               *)
(***************************************************************************)
MAX_RETRIES == 3

RequestIds == {"r1", "r2"}

\* `${m.code}: ${m.description}` joined by "\n"
materiasList(list) ==
  Concat(Join([i \in 1..Len(list) |-> <<list[i].code, ": ", list[i].description>>],
              <<"\n">>))

basePrompt(text) ==
  <<"# ROL Y CONTEXTO", "# MANUSCRITO A ANALIZAR",
    "manuscrito[0.." \o ToString(substring(text, PROMPT_TEXT_LIMIT).len) \o ")",
    "# INSTRUCCIONES DE ANALISIS",
    "LISTA CERRADA DE ETIQUETAS VALIDAS (usar SOLO estas):">>
    \o Join(ETIQUETAS, ", ")
    \o <<"LISTADO COMPLETO DE MATERIAS BISAC (usar SOLO codigos de esta lista):">>
    \o materiasList(MATERIAS_BISAC)
    \o <<"LISTADO COMPLETO DE MATERIAS THEMA (usar SOLO codigos de esta lista):">>
    \o materiasList(MATERIAS_THEMA)
    \o <<"LISTADO COMPLETO DE MATERIAS IBIC (usar SOLO codigos de esta lista):">>
    \o materiasList(MATERIAS_IBIC)
    \o <<"# CASOS ESPECIALES", NORMAS_ORTOTIPOGRAFICAS>>

\* the members a value must have for the code to read it without a TypeError
\* (result.tags.filter, result.classifications.bisac)
CoreMembers == {"tags", "classifications"}
\* the members of the response schema that the model represents
SchemaMembers == {"title", "tags", "classifications"}

\* response.status(405).send(..), response.status(400).send(..)
methodNotAllowed == [status |-> 405, body |-> "Method Not Allowed", json |-> Null]
badRequest ==
  [status |-> 400, body |-> "Bad Request: Se requiere 'text' y 'wordCount'.",
   json |-> Null]

\* the errors the try block can throw: its own, JSON.parse's and
\* detectInvalidCodes' (as the engine words them), and whatever
\* generateContent rejects with
EmptyResponseError == "La respuesta de la API de Gemini esta vacia."
NoResultError == "No se pudo obtener respuesta de la IA."
SyntaxError == "SyntaxError: Unexpected token in JSON"
TypeErrorSubstring == "TypeError: text.substring is not a function"
TypeErrorUndefined == "TypeError: Cannot read properties of undefined"
GatewayErrors == {"fetch failed", "429 RESOURCE_EXHAUSTED: quota exceeded for key"}

\* mutant: the message of the error is sent to the caller
catchBlock_leaks(error) ==
  [status |-> 500, body |-> "Error interno del servidor: " \o error, json |-> Null]

\* catch (error) { ... response.status(500).send(errorMessage) }
catchBlock(error) ==
  [status |-> 500,
   body |-> "Error interno del servidor: No se pudo procesar el documento.",
   json |-> Null]

\* mutant: the text echoed back is the prefix that went into the prompt
successResponse_truncated(result, req) ==
  [status |-> 200, body |-> "",
   json |-> [ members |-> result.members \cup {"wordCount", "rawText"},
              title |-> result.title,
              tags |-> result.tags,
              classifications |-> result.classifications,
              wordCount |-> req.wordCount,
              rawText |-> substring(req.text, PROMPT_TEXT_LIMIT) ]]

\* const analysisResult = {...normalizedResult, wordCount, rawText: text};
\* response.status(200).json(analysisResult)
successResponse(result, req) ==
  [status |-> 200, body |-> "",
   json |-> [ members |-> result.members \cup {"wordCount", "rawText"},
              title |-> result.title,
              tags |-> result.tags,
              classifications |-> result.classifications,
              wordCount |-> req.wordCount,
              rawText |-> req.text ]]

\* mutant: one attempt too many
loopContinues_offByOne(att) == att <= MAX_RETRIES

\* while (attempt < MAX_RETRIES)
loopContinues(att) == att < MAX_RETRIES

\* mutant: the break is missing
breaksLoop_never(val) == FALSE

\* if (validation.isValid) { break; }
breaksLoop(val) == val.isValid

\* mutant: the feedback is built after the last attempt as well
retryRemains_always(att) == TRUE

\* if (attempt < MAX_RETRIES)
retryRemains(att) == att < MAX_RETRIES

\* mutant: the feedback replaces the prompt
nextPrompt_replaces(prompt, base, val, att) ==
  IF att < MAX_RETRIES THEN buildCorrectionPrompt(val) ELSE prompt

\* mutant: the feedback is appended to the prompt of the attempt before
nextPrompt_accumulates(prompt, base, val, att) ==
  IF att < MAX_RETRIES THEN prompt \o buildCorrectionPrompt(val) ELSE prompt

\* if (attempt < MAX_RETRIES) { currentPrompt = basePrompt + buildCorrectionPrompt(validation) }
nextPrompt(prompt, base, val, att) ==
  IF retryRemains(att) THEN base \o buildCorrectionPrompt(val) ELSE prompt

\* mutant: a result that is still invalid after the loop is an error
afterLoop_strict(res, req) ==
  IF res = Null \/ ~detectInvalidCodes(res).isValid
    THEN catchBlock(NoResultError)
    ELSE successResponse(normalizedResult(res), req)

\* mutant: a result that passed validation is sent as the model gave it
afterLoop_skipWhenValid(res, req) ==
  IF res = Null
    THEN catchBlock(NoResultError)
    ELSE IF detectInvalidCodes(res).isValid
      THEN successResponse(res, req)
      ELSE successResponse(normalizedResult(res), req)

\* what the code after the loop sends for the result it is left with
afterLoop(res, req) ==
  IF res = Null
    THEN catchBlock(NoResultError)   \* throw new Error("No se pudo obtener ...")
    ELSE successResponse(normalizedResult(res), req)

\* mutant: the return after send is missing, the handler falls through and
\* sends once more
Respond_sendsTwice(r, resp) ==
  /\ response' = [response EXCEPT ![r] = resp]
  /\ sends' = [sends EXCEPT ![r] = @ + 2]
  /\ pc' = [pc EXCEPT ![r] = "done"]

Respond(r, resp) ==
  /\ response' = [response EXCEPT ![r] = resp]
  /\ sends' = [sends EXCEPT ![r] = @ + 1]
  /\ pc' = [pc EXCEPT ![r] = "done"]

\* the locals as the handler leaves them
\* mutant: currentPrompt is a variable of the module, shared by the requests
SetLocals_shared(r, prompt, res, val, att) ==
  /\ currentPrompt' = [q \in RequestIds |-> prompt]
  /\ resultJson' = [resultJson EXCEPT ![r] = res]
  /\ validation' = [validation EXCEPT ![r] = val]
  /\ attempt' = [attempt EXCEPT ![r] = att]

SetLocals(r, prompt, res, val, att) ==
  /\ currentPrompt' = [currentPrompt EXCEPT ![r] = prompt]
  /\ resultJson' = [resultJson EXCEPT ![r] = res]
  /\ validation' = [validation EXCEPT ![r] = val]
  /\ attempt' = [attempt EXCEPT ![r] = att]

\* mutant: the calls are not awaited one by one, two are issued at once
LoopTop_fanOut(r, req, prompt, res, val, att) ==
  IF loopContinues(att)
    THEN /\ SetLocals(r, prompt, res, val, att + 1)
         /\ gatewayCalls' = [gatewayCalls EXCEPT ![r] = @ + 2]
         /\ sent' = [sent EXCEPT ![r] = Append(Append(@, prompt), prompt)]
         /\ pc' = [pc EXCEPT ![r] = "awaitGateway"]
         /\ UNCHANGED <<response, caught, sends>>
    ELSE /\ SetLocals(r, prompt, res, val, att)
         /\ Respond(r, afterLoop(res, req))
         /\ UNCHANGED <<gatewayCalls, sent, caught>>

\* the loop condition is evaluated with the given locals: the handler either
\* issues the next generateContent call and suspends, or leaves the loop and
\* answers
LoopTop(r, req, prompt, res, val, att) ==
  IF loopContinues(att)
    THEN /\ SetLocals(r, prompt, res, val, att + 1)
         /\ gatewayCalls' = [gatewayCalls EXCEPT ![r] = @ + 1]
         /\ sent' = [sent EXCEPT ![r] = Append(@, prompt)]
         /\ pc' = [pc EXCEPT ![r] = "awaitGateway"]
         /\ UNCHANGED <<response, caught, sends>>
    ELSE /\ SetLocals(r, prompt, res, val, att)
         /\ Respond(r, afterLoop(res, req))
         /\ UNCHANGED <<gatewayCalls, sent, caught>>

\* mutant: on an exception the handler answers with the candidate it already
\* has, when it has one
Catch_fallback(r, error) ==
  /\ Respond(r, IF resultJson[r] # Null /\ validation[r] # Null
                  THEN successResponse(normalizedResult(resultJson[r]), request[r])
                  ELSE catchBlock(error))
  /\ caught' = [caught EXCEPT ![r] = [message |-> error]]
  /\ UNCHANGED <<gatewayCalls, sent>>

\* an exception reaches the catch block
Catch(r, error) ==
  /\ Respond(r, catchBlock(error))
  /\ caught' = [caught EXCEPT ![r] = [message |-> error]]
  /\ UNCHANGED <<gatewayCalls, sent>>

(***************************************************************************)
(* The request arrives: the handler runs to its first suspend point or to  *)
(* its response.                                                           *)
(***************************************************************************)
Receive(r, req) ==
  /\ pc[r] = "idle"
  /\ request' = [request EXCEPT ![r] = req]
  /\ UNCHANGED <<store, returned, log, validated, corrections, pureVars, authVars,
                 uploadVars>>
  /\ IF req.method # "POST"
       THEN /\ Respond(r, methodNotAllowed)
            /\ UNCHANGED <<attempt, currentPrompt, resultJson, validation,
                           gatewayCalls, sent, caught>>
       ELSE IF Falsy(req.text) \/ req.wordCount.type # "number"
         THEN /\ Respond(r, badRequest)
              /\ UNCHANGED <<attempt, currentPrompt, resultJson, validation,
                             gatewayCalls, sent, caught>>
         ELSE IF req.text.type # "string"
           \* text.substring is not a function: TypeError, caught
           THEN /\ Catch(r, TypeErrorSubstring)
                /\ UNCHANGED <<attempt, currentPrompt, resultJson, validation>>
           ELSE LoopTop(r, req, basePrompt(req.text), Null, Null, 0)

(***************************************************************************)
(* Generation Gateway outcomes.  A gateway text is empty (undefined or     *)
(* ""), or not well-formed JSON, or the JSON text of a value.               *)
(***************************************************************************)
NoValue == [members |-> {}, title |-> "", tags |-> <<>>, classifications |-> Null]
EmptyText == [empty |-> TRUE, wellFormed |-> FALSE, value |-> NoValue]
MalformedText == [empty |-> FALSE, wellFormed |-> FALSE, value |-> NoValue]
JsonText(v) == [empty |-> FALSE, wellFormed |-> TRUE, value |-> v]

\* JSON.parse(text) of a well-formed text
JSONparse(text) == text.value

\* mutant: the first candidate is kept, later ones are dropped
assignResult_keepsFirst(prev, parsed) == IF prev = Null THEN parsed ELSE prev

\* resultJson = JSON.parse(geminiResponse.text) as ...
assignResult(prev, parsed) == parsed

\* mutant: the tags of a candidate are added to the set of valid tags
storeAfterHandling_learns(st, candidate) ==
  [st EXCEPT !.VALID_ETIQUETAS = @ \cup SetOf(candidate.tags)]

\* the vocabulary after a candidate was handled: detectInvalidCodes,
\* buildCorrectionPrompt and the normalization call only .has(..) and
\* .get(..) on the sets and maps
storeAfterHandling(st, candidate) == st

\* mutant: a missing member is read as an empty one
detectThrows_lenient(result) == FALSE

\* detectInvalidCodes(result) throws a TypeError when result.tags or
\* result.classifications is undefined
detectThrows(result) == ~(CoreMembers \subseteq result.members)

\* how a gateway text is classified, from the vocabulary lists alone
ValidCandidate(v) ==
  /\ \A i \in 1..Len(v.tags) : v.tags[i] \in SetOf(ETIQUETAS)
  /\ \A s \in {"bisac", "thema", "ibic"} : \A t \in {"main", "secondary", "related"} :
       \A i \in 1..Len(v.classifications[s][t]) :
         v.classifications[s][t][i].code \in
           SetOf(Codes(CASE s = "bisac" -> MATERIAS_BISAC
                         [] s = "thema" -> MATERIAS_THEMA
                         [] OTHER -> MATERIAS_IBIC))

\* what a gateway call came back with: its kind, and for the value of a
\* well-formed JSON text whether it has every member of the schema (shaped),
\* whether it has the members the code reads (readable), and whether all its
\* tags and codes are in the lists (valid)
Threw == [kind |-> "threw", shaped |-> FALSE, readable |-> FALSE, valid |-> FALSE]

\* no ValidationResult: the attempt ended before detectInvalidCodes returned
NotValidated == [isValid |-> FALSE, none |-> TRUE]

Outcome(text) ==
  IF text.empty
    THEN [kind |-> "empty", shaped |-> FALSE, readable |-> FALSE, valid |-> FALSE]
  ELSE IF ~text.wellFormed
    THEN [kind |-> "malformed", shaped |-> FALSE, readable |-> FALSE, valid |-> FALSE]
  ELSE [kind |-> "value",
        shaped |-> text.value.members = SchemaMembers,
        readable |-> CoreMembers \subseteq text.value.members,
        valid |-> CoreMembers \subseteq text.value.members /\ ValidCandidate(text.value)]

\* await ai.models.generateContent(..) rejects (network, timeout, API error)
GatewayThrows(r, error) ==
  /\ pc[r] = "awaitGateway"
  /\ log' = [log EXCEPT ![r] = Append(@, Threw)]
  /\ validated' = [validated EXCEPT ![r] = Append(@, NotValidated)]
  /\ Catch(r, error)
  /\ UNCHANGED <<store, request, attempt, currentPrompt, resultJson, validation,
                 returned, corrections, pureVars, authVars, uploadVars>>

\* await ai.models.generateContent(..) resolves with geminiResponse.text = text:
\* the handler runs to its next suspend point or to its response
GatewayResponds(r, text) ==
  /\ pc[r] = "awaitGateway"
  /\ log' = [log EXCEPT ![r] = Append(@, Outcome(text))]
  /\ store' = storeAfterHandling(store, text.value)
  /\ UNCHANGED <<request, pureVars, authVars, uploadVars>>
  /\ IF text.empty
       \* throw new Error("La respuesta de la API de Gemini esta vacia.")
       THEN /\ Catch(r, EmptyResponseError)
            /\ validated' = [validated EXCEPT ![r] = Append(@, NotValidated)]
            /\ UNCHANGED <<attempt, currentPrompt, resultJson, validation, returned,
                           corrections>>
       ELSE IF ~text.wellFormed
         \* JSON.parse throws a SyntaxError
         THEN /\ Catch(r, SyntaxError)
              /\ validated' = [validated EXCEPT ![r] = Append(@, NotValidated)]
              /\ UNCHANGED <<attempt, currentPrompt, resultJson, validation, returned,
                             corrections>>
         ELSE LET res == assignResult(resultJson[r], JSONparse(text)) IN
           /\ returned' = [returned EXCEPT ![r] = JSONparse(text)]
           /\ IF detectThrows(res)
                THEN /\ Catch(r, TypeErrorUndefined)
                     /\ validated' = [validated EXCEPT ![r] = Append(@, NotValidated)]
                     /\ resultJson' = [resultJson EXCEPT ![r] = res]
                     /\ UNCHANGED <<attempt, currentPrompt, validation, corrections>>
                ELSE LET val == detectInvalidCodes(res) IN
                  /\ validated' = [validated EXCEPT ![r] = Append(@, val)]
                  /\ IF breaksLoop(val)
                       THEN /\ SetLocals(r, currentPrompt[r], res, val, attempt[r])
                            /\ Respond(r, afterLoop(res, request[r]))
                            /\ UNCHANGED <<gatewayCalls, sent, caught, corrections>>
                       ELSE /\ corrections' =
                                 IF retryRemains(attempt[r])
                                   THEN [corrections EXCEPT ![r] =
                                           Append(@, [validation |-> val,
                                                      attempt |-> attempt[r]])]
                                   ELSE corrections
                            /\ LoopTop(r, request[r],
                                       nextPrompt(currentPrompt[r],
                                                  basePrompt(request[r].text),
                                                  val, attempt[r]),
                                       res, val, attempt[r])

(***************************************************************************)
(* Inputs.                                                                 *)
(***************************************************************************)
Schemes == {"bisac", "thema", "ibic"}
Tiers == {"main", "secondary", "related"}

SeqsUpTo(S, n) == UNION {[1..k -> S] : k \in 0..n}

\* tags the model may answer with: two of the list and one that is not
TagUniverse == {"novela", "thriller", "poesia"}

\* items the model may answer with, per scheme: a valid code with a made-up
\* description, a valid code with another scheme's description, and a code
\* that is not of the scheme (for THEMA and IBIC, one of the other scheme)
ItemUniverse(s) ==
  CASE s = "bisac" ->
         { [code |-> "FIC000000", description |-> "Wrong text", justification |-> "y"],
           [code |-> "FIC031000", description |-> "Thriller / suspense", justification |-> "x"],
           [code |-> "FIC999999", description |-> "Fake", justification |-> "x"] }
    [] s = "thema" ->
         { [code |-> "FB", description |-> "Fake", justification |-> "x"],
           [code |-> "FH", description |-> "Obras de suspense y thriller", justification |-> "y"],
           [code |-> "FA", description |-> "Ficcion moderna y contemporanea", justification |-> "x"] }
    [] OTHER ->
         { [code |-> "FA", description |-> "Fake", justification |-> "x"],
           [code |-> "FH", description |-> "Thriller / suspense", justification |-> "y"],
           [code |-> "FB", description |-> "Ficcion: general y literaria", justification |-> "x"] }

EmptySubject == [main |-> <<>>, secondary |-> <<>>, related |-> <<>>]
EmptyClassifications == [s \in Schemes |-> EmptySubject]

\* a subject with a valid and an invalid item
MixedSubject(s) ==
  [ main |-> << CHOOSE i \in ItemUniverse(s) : i.code \in {"FIC000000", "FB", "FA"}
                                               /\ i.description \in {"Wrong text", "Fake"} >>,
    secondary |-> << CHOOSE i \in ItemUniverse(s) :
                       i.code = (CASE s = "bisac" -> "FIC999999" [] s = "thema" -> "FA"
                                   [] OTHER -> "FB") >>,
    related |-> <<>> ]
MixedClassifications == [s \in Schemes |-> MixedSubject(s)]

Candidate(tags, classifications) ==
  [members |-> SchemaMembers, title |-> "Titulo", tags |-> tags,
   classifications |-> classifications]

\* candidates for the pure-function checks: either the tags vary freely over
\* a fixed mixed classification, or one tier of one scheme varies up to
\* MaxItems items and the other two tiers of that scheme up to one item
CandidateSpace ==
  { Candidate(tags, MixedClassifications) : tags \in SeqsUpTo(TagUniverse, MaxTags) }
  \cup
  UNION { UNION {
    { Candidate(<<"poesia", "novela">>,
                [MixedClassifications EXCEPT ![s] =
                   [u \in Tiers |-> IF u = t THEN rich ELSE other[u]]]) :
        rich \in SeqsUpTo(ItemUniverse(s), MaxItems),
        other \in [Tiers -> SeqsUpTo(ItemUniverse(s), 1)] }
    : t \in Tiers } : s \in Schemes }
  \cup
  \* one tier of one scheme varies and every other tier is empty
  UNION { UNION {
    { Candidate(tags, [EmptyClassifications EXCEPT ![s][t] = rich]) :
        tags \in {<<>>, <<"thriller", "novela">>},
        rich \in SeqsUpTo(ItemUniverse(s), MaxItems) }
    : t \in Tiers } : s \in Schemes }
  \cup
  \* any subset of the schemes has an invalid item, with and without an
  \* invalid tag
  { Candidate(tags, [s \in Schemes |-> IF s \in bad THEN MixedSubject(s)
                                                   ELSE EmptySubject]) :
      tags \in {<<>>, <<"novela">>, <<"poesia", "novela", "ensayo">>},
      bad \in SUBSET Schemes }

\* candidates the gateway may answer a request with: at most one item, in any
\* tier of any scheme, with and without an invalid tag; a fully empty one; and
\* the mixed one
GatewayCandidates ==
  { Candidate(tags, [EmptyClassifications EXCEPT ![p[1]][p[2]] = <<p[3]>>]) :
      tags \in {<<"novela">>, <<"novela", "poesia">>},
      p \in UNION { {<<s, t, i>> : t \in Tiers, i \in ItemUniverse(s)} : s \in Schemes } }
  \cup { Candidate(<<>>, EmptyClassifications),
         Candidate(<<"thriller", "novela">>, EmptyClassifications),
         Candidate(<<"poesia">>, MixedClassifications) }

\* well-formed JSON that is not of the schema's shape
MisshapedValues ==
  LET c == Candidate(<<"novela">>, MixedClassifications) IN
  { [c EXCEPT !.members = {}],
    [c EXCEPT !.members = {"title", "classifications"}],
    [c EXCEPT !.members = {"title", "tags"}],
    [c EXCEPT !.members = {"tags", "classifications"}],
    [Candidate(<<"thriller">>, EmptyClassifications) EXCEPT
       !.members = {"tags", "classifications"}] }

GatewayTexts ==
  {EmptyText, MalformedText}
    \cup {JsonText(v) : v \in GatewayCandidates \cup MisshapedValues}

HttpRequests ==
  [ method : {"POST", "GET"},
    text : {JsUndefined, JsString(0), JsString(1200), JsString(PROMPT_TEXT_LIMIT + 1),
            JsNumber(42)},
    wordCount : {JsNumber(1200), JsString(4), JsUndefined} ]

(***************************************************************************)
(* AuthProvider (contexts/AuthContext.tsx).  Firebase Auth is the          *)
(* environment: it holds auth.currentUser, resolves signInWithPopup and     *)
(* signOut at its own pace, and delivers every change of the current user   *)
(* to the onAuthStateChanged listener, in order.                            *)
(***************************************************************************)
\* total number of signInWithGoogle and logout calls the user makes
MaxAuthOps == 3

ALLOWED_EMAILS == <<"adadelmoralfernandez@gmail.com", "lanochedelfugitivo@gmail.com">>

\* Google accounts that may come out of the popup: user.email is a string or
\* null (hasEmail = FALSE)
Accounts ==
  { [uid |-> "u1", hasEmail |-> TRUE, email |-> "adadelmoralfernandez@gmail.com"],
    [uid |-> "u2", hasEmail |-> TRUE, email |-> "LaNocheDelFugitivo@Gmail.com"],
    [uid |-> "u3", hasEmail |-> TRUE, email |-> "intruso@gmail.com"],
    [uid |-> "u4", hasEmail |-> FALSE, email |-> ""] }

\* String.prototype.toLowerCase on the e-mail addresses of Accounts
toLowerCase(str) ==
  IF str = "LaNocheDelFugitivo@Gmail.com" THEN "lanochedelfugitivo@gmail.com" ELSE str

\* mutant: the listener exposes whoever Firebase reports
isAuthorized_anyone(u) == TRUE

\* const userEmail = user.email?.toLowerCase();
\* !(!userEmail || !ALLOWED_EMAILS.includes(userEmail))
isAuthorized(u) ==
  LET userEmail == toLowerCase(u.email)
  IN  /\ u.hasEmail
      /\ userEmail # ""
      /\ \E i \in 1..Len(ALLOWED_EMAILS) : ALLOWED_EMAILS[i] = userEmail

SignOutCallers == {"listener", "signInWithGoogle", "logout"}

\* the provider is not mounted
AuthIdle ==
  /\ authUser = Null /\ user = Null /\ loading = TRUE
  /\ authEvents = <<>> /\ popups = 0
  /\ signInResults = <<>>
  /\ signOutsCalled = [c \in SignOutCallers |-> 0]
  /\ signOutsResolved = [c \in SignOutCallers |-> 0]
  /\ authOps = 0
  /\ everSignedIn = {}

\* the provider mounts: useState(null), useState(true), and the effect
\* subscribes; Firebase reports the persisted session, if any, first
InitAuth ==
  /\ authUser \in Accounts \cup {Null}
  /\ user = Null /\ loading = TRUE
  /\ authEvents = <<authUser>>
  /\ popups = 0
  /\ signInResults = <<>>
  /\ signOutsCalled = [c \in SignOutCallers |-> 0]
  /\ signOutsResolved = [c \in SignOutCallers |-> 0]
  /\ authOps = 0
  /\ everSignedIn = IF authUser = Null THEN {} ELSE {authUser}

\* signOut(auth) is called by caller c
callSignOut(c) == signOutsCalled' = [signOutsCalled EXCEPT ![c] = @ + 1]

\* signInWithGoogle is called: signInWithPopup(auth, googleProvider) is awaited
SignInWithGoogle ==
  /\ authOps < MaxAuthOps
  /\ authOps' = authOps + 1
  /\ popups' = popups + 1
  /\ UNCHANGED <<authUser, user, loading, authEvents, signInResults,
                 signOutsCalled, signOutsResolved, everSignedIn>>
  /\ UNCHANGED <<store, handlerVars, pureVars, uploadVars>>

\* signInWithPopup resolves with account u: Firebase has made it the current
\* user and queued the change for the listener
PopupResolves(u) ==
  /\ popups > 0
  /\ popups' = popups - 1
  /\ authUser' = u
  /\ authEvents' = IF authUser = u THEN authEvents ELSE Append(authEvents, u)
  /\ signInResults' = Append(signInResults, u)
  /\ everSignedIn' = everSignedIn \cup {u}
  /\ UNCHANGED <<user, loading, signOutsCalled, signOutsResolved, authOps>>
  /\ UNCHANGED <<store, handlerVars, pureVars, uploadVars>>

\* signInWithPopup rejects (popup closed or blocked): the catch block rethrows
PopupRejects ==
  /\ popups > 0
  /\ popups' = popups - 1
  /\ UNCHANGED <<authUser, user, loading, authEvents, signInResults,
                 signOutsCalled, signOutsResolved, authOps, everSignedIn>>
  /\ UNCHANGED <<store, handlerVars, pureVars, uploadVars>>

\* signInWithGoogle resumes after signInWithPopup: result.user is checked
SignInResumes ==
  /\ signInResults # <<>>
  /\ signInResults' = Tail(signInResults)
  /\ IF ~isAuthorized(Head(signInResults))
       THEN callSignOut("signInWithGoogle")   \* await signOut(auth)
       ELSE UNCHANGED signOutsCalled
  /\ UNCHANGED <<authUser, user, loading, authEvents, popups,
                 signOutsResolved, authOps, everSignedIn>>
  /\ UNCHANGED <<store, handlerVars, pureVars, uploadVars>>

\* logout is called: signOut(auth) is awaited
Logout ==
  /\ authOps < MaxAuthOps
  /\ authOps' = authOps + 1
  /\ callSignOut("logout")
  /\ UNCHANGED <<authUser, user, loading, authEvents, popups, signInResults,
                 signOutsResolved, everSignedIn>>
  /\ UNCHANGED <<store, handlerVars, pureVars, uploadVars>>

\* a signOut call of caller c resolves: Firebase has cleared the current user
\* and, if there was one, queued the change for the listener
SignOutResolves(c) ==
  /\ signOutsCalled[c] > 0
  /\ signOutsCalled' = [signOutsCalled EXCEPT ![c] = @ - 1]
  /\ signOutsResolved' = [signOutsResolved EXCEPT ![c] = @ + 1]
  /\ authUser' = Null
  /\ authEvents' = IF authUser = Null THEN authEvents ELSE Append(authEvents, Null)
  /\ UNCHANGED <<user, loading, popups, signInResults, authOps, everSignedIn>>
  /\ UNCHANGED <<store, handlerVars, pureVars, uploadVars>>

\* the caller of a resolved signOut resumes: the listener does setUser(null)
\* and setLoading(false); signInWithGoogle throws UNAUTHORIZED; logout returns
SignOutCallerResumes(c) ==
  /\ signOutsResolved[c] > 0
  /\ signOutsResolved' = [signOutsResolved EXCEPT ![c] = @ - 1]
  /\ IF c = "listener"
       THEN user' = Null /\ loading' = FALSE
       ELSE UNCHANGED <<user, loading>>
  /\ UNCHANGED <<authUser, authEvents, popups, signInResults, signOutsCalled,
                 authOps, everSignedIn>>
  /\ UNCHANGED <<store, handlerVars, pureVars, uploadVars>>

\* the onAuthStateChanged callback runs for the oldest undelivered change, up
\* to its await or to its end
AuthStateChanged ==
  /\ authEvents # <<>>
  /\ authEvents' = Tail(authEvents)
  /\ LET u == Head(authEvents) IN
       IF u # Null
         THEN IF ~isAuthorized(u)
                THEN /\ callSignOut("listener")   \* await signOut(auth)
                     /\ UNCHANGED <<user, loading>>
                ELSE /\ user' = u
                     /\ loading' = FALSE
                     /\ UNCHANGED signOutsCalled
         ELSE /\ user' = Null
              /\ loading' = FALSE
              /\ UNCHANGED signOutsCalled
  /\ UNCHANGED <<authUser, popups, signInResults, signOutsResolved, authOps,
                 everSignedIn>>
  /\ UNCHANGED <<store, handlerVars, pureVars, uploadVars>>

NextAuth ==
  \/ SignInWithGoogle
  \/ \E u \in Accounts : PopupResolves(u)
  \/ PopupRejects
  \/ SignInResumes
  \/ Logout
  \/ \E c \in SignOutCallers : SignOutResolves(c)
  \/ \E c \in SignOutCallers : SignOutCallerResumes(c)
  \/ AuthStateChanged

(***************************************************************************)
(* App.handleFileUpload and FileUploader (App.tsx, components/             *)
(* FileUploader.tsx).  The user, extractTextFromFile and getAnalysis are   *)
(* the environment.  A run of handleFileUpload is suspended at one of its  *)
(* two awaits until the promise settles.                                   *)
(***************************************************************************)
MaxUploads == 3

Files == {"manuscrito.pdf", "novela.docx"}

\* what extractTextFromFile resolves with: text.trim().length
ExtractedLengths == {0, 99, 100, 5000}

TITLE_NOT_FOUND == "TITULO NO ENCONTRADO"

\* what getAnalysis resolves with
AnalysisResults ==
  [ file : Files, title : {"Rayuela", TITLE_NOT_FOUND}, needsInput : BOOLEAN ]

\* what a rejected extractTextFromFile carries
ExtractErrors == { [message |-> "Tipo de archivo no soportado."], [message |-> ""] }

\* what a rejected getAnalysis carries
AnalysisErrors == { [message |-> "Error del servidor: 500"], [message |-> ""] }

InsufficientTextError ==
  [message |-> "El documento esta vacio o no se pudo extraer texto suficiente para el analisis."]

UploadIdle ==
  /\ isLoading = FALSE
  /\ loadingMessage = ""
  /\ analysisResult = Null
  /\ uploadError = Null
  /\ isTitleModalOpen = FALSE
  /\ isCitationModalOpen = FALSE
  /\ runs = <<>>

\* <input ... disabled={disabled} /> with disabled={isLoading}
disabled == isLoading

\* the part of handleFileUpload before its first await
handleFileUpload(file) ==
  /\ Len(runs) < MaxUploads
  /\ isLoading' = TRUE
  /\ uploadError' = Null
  /\ analysisResult' = Null
  /\ loadingMessage' = "Extrayendo texto del documento..."
  /\ runs' = Append(runs, [file |-> file, stage |-> "extracting"])
  /\ UNCHANGED <<isTitleModalOpen, isCitationModalOpen>>
  /\ UNCHANGED <<store, handlerVars, pureVars, authVars>>

\* handleFileChange: the change event of the input; a disabled input
\* gives none
SelectFile(file) ==
  /\ ~disabled
  /\ file \in Files        \* e.target.files && e.target.files[0]
  /\ handleFileUpload(file)

\* handleDrop: the drop event of the label
DropFile(file) ==
  /\ file \in Files        \* e.dataTransfer.files && e.dataTransfer.files[0]
  /\ handleFileUpload(file)

\* catch (err) { setError(err.message || ...) } finally { ... }
catchAndFinally(i, err) ==
  /\ uploadError' = IF err.message = ""
                      THEN [message |-> "Ocurrio un error desconocido."]
                      ELSE err
  /\ isLoading' = FALSE
  /\ loadingMessage' = ""
  /\ runs' = [runs EXCEPT ![i].stage = "done"]
  /\ UNCHANGED <<analysisResult, isTitleModalOpen, isCitationModalOpen>>

\* await extractTextFromFile(file) resolves with a text of the given length
ExtractResolves(i, length) ==
  /\ i \in 1..Len(runs)
  /\ runs[i].stage = "extracting"
  /\ IF length < 100
       THEN catchAndFinally(i, InsufficientTextError)
       ELSE /\ loadingMessage' = "Analizando con IA... Esto puede tardar un momento."
            /\ runs' = [runs EXCEPT ![i].stage = "analyzing"]
            /\ UNCHANGED <<isLoading, analysisResult, uploadError, isTitleModalOpen,
                           isCitationModalOpen>>
  /\ UNCHANGED <<store, handlerVars, pureVars, authVars>>

\* await extractTextFromFile(file) rejects
ExtractRejects(i, err) ==
  /\ i \in 1..Len(runs)
  /\ runs[i].stage = "extracting"
  /\ catchAndFinally(i, err)
  /\ UNCHANGED <<store, handlerVars, pureVars, authVars>>

\* await getAnalysis(text, wordCount) resolves
AnalysisResolves(i, result) ==
  /\ i \in 1..Len(runs)
  /\ runs[i].stage = "analyzing"
  /\ result.file = runs[i].file
  /\ analysisResult' = result
  /\ IF result.title = TITLE_NOT_FOUND
       THEN /\ isTitleModalOpen' = TRUE
            /\ UNCHANGED isCitationModalOpen
       ELSE /\ isCitationModalOpen' = (isCitationModalOpen \/ result.needsInput)
            /\ UNCHANGED isTitleModalOpen
  /\ isLoading' = FALSE
  /\ loadingMessage' = ""
  /\ runs' = [runs EXCEPT ![i].stage = "done"]
  /\ UNCHANGED uploadError
  /\ UNCHANGED <<store, handlerVars, pureVars, authVars>>

\* await getAnalysis(text, wordCount) rejects
AnalysisRejects(i, err) ==
  /\ i \in 1..Len(runs)
  /\ runs[i].stage = "analyzing"
  /\ catchAndFinally(i, err)
  /\ UNCHANGED <<store, handlerVars, pureVars, authVars>>

NextUpload ==
  \/ \E file \in Files : SelectFile(file)
  \/ \E file \in Files : DropFile(file)
  \/ \E i \in 1..MaxUploads, length \in ExtractedLengths : ExtractResolves(i, length)
  \/ \E i \in 1..MaxUploads, err \in ExtractErrors : ExtractRejects(i, err)
  \/ \E i \in 1..MaxUploads, result \in AnalysisResults : AnalysisResolves(i, result)
  \/ \E i \in 1..MaxUploads, err \in AnalysisErrors : AnalysisRejects(i, err)

(***************************************************************************)
(* Specification of the request handler: one request in flight.            *)
(***************************************************************************)
Served == {"r1"}

InitRequests ==
  /\ pc = [r \in RequestIds |-> "idle"]
  /\ request = [r \in RequestIds |-> Null]
  /\ attempt = [r \in RequestIds |-> 0]
  /\ currentPrompt = [r \in RequestIds |-> <<>>]
  /\ resultJson = [r \in RequestIds |-> Null]
  /\ validation = [r \in RequestIds |-> Null]
  /\ response = [r \in RequestIds |-> Null]
  /\ gatewayCalls = [r \in RequestIds |-> 0]
  /\ returned = [r \in RequestIds |-> Null]
  /\ log = [r \in RequestIds |-> <<>>]
  /\ sent = [r \in RequestIds |-> <<>>]
  /\ validated = [r \in RequestIds |-> <<>>]
  /\ caught = [r \in RequestIds |-> Null]
  /\ received = [r \in RequestIds |-> <<>>]
  /\ corrections = [r \in RequestIds |-> <<>>]
  /\ sends = [r \in RequestIds |-> 0]

InitHandler ==
  /\ store = BuildStore
  /\ InitRequests

PureIdle ==
  /\ x = Null /\ nx = Null /\ nnx = Null /\ vnx = Null /\ vx = Null /\ cp = Null
  /\ x0 = Null /\ vx2 = Null

Init ==
  /\ InitHandler
  /\ PureIdle
  /\ AuthIdle
  /\ UploadIdle

Next ==
  \E r \in Served :
    \/ \E req \in HttpRequests : Receive(r, req) /\ UNCHANGED received
    \/ \E error \in GatewayErrors : GatewayThrows(r, error) /\ UNCHANGED received
    \/ \E text \in GatewayTexts : GatewayResponds(r, text) /\ UNCHANGED received

Spec == Init /\ [][Next]_vars

\* the await of generateContent settles: the promise resolves or rejects
GatewaySettles(r) ==
  \/ \E error \in GatewayErrors : GatewayThrows(r, error) /\ UNCHANGED received
  \/ \E text \in GatewayTexts : GatewayResponds(r, text) /\ UNCHANGED received

\* the handler with every gateway call eventually returning or failing
SpecLive == Init /\ [][Next]_vars /\ \A r \in Served : WF_vars(GatewaySettles(r))

(***************************************************************************)
(* Specification of the request handler: two requests in flight, their     *)
(* steps interleaved at the await of generateContent.  What each call came *)
(* back with is recorded per request.                                      *)
(***************************************************************************)
ConcurrentRequests ==
  { [method |-> "POST", text |-> JsString(1200), wordCount |-> JsNumber(1200)],
    [method |-> "POST", text |-> JsString(PROMPT_TEXT_LIMIT + 1),
     wordCount |-> JsNumber(1200)],
    [method |-> "GET", text |-> JsString(1200), wordCount |-> JsNumber(1200)] }

ConcurrentTexts ==
  { EmptyText,
    JsonText(Candidate(<<"novela">>, EmptyClassifications)),
    JsonText(Candidate(<<"poesia">>, EmptyClassifications)),
    JsonText(Candidate(<<"novela">>, MixedClassifications)),
    JsonText([Candidate(<<"poesia", "thriller">>, MixedClassifications) EXCEPT
                !.title = "Borrador"]) }

ConcurrentErrors == {"fetch failed"}

NextConcurrent ==
  \E r \in RequestIds :
    \/ \E req \in ConcurrentRequests : Receive(r, req) /\ UNCHANGED received
    \/ \E error \in ConcurrentErrors :
         /\ GatewayThrows(r, error)
         /\ received' = [received EXCEPT ![r] = Append(@, [threw |-> error])]
    \/ \E text \in ConcurrentTexts :
         /\ GatewayResponds(r, text)
         /\ received' = [received EXCEPT ![r] = Append(@, text)]

SpecConcurrent == Init /\ [][NextConcurrent]_vars

(***************************************************************************)
(* Specification of the pure functions: a candidate is drawn, then the     *)
(* normalizer and the validator are applied to it.                         *)
(***************************************************************************)
InitPure ==
  /\ InitHandler
  /\ AuthIdle
  /\ UploadIdle
  /\ x \in CandidateSpace
  /\ nx = Null /\ nnx = Null /\ vnx = Null /\ vx = Null /\ cp = Null
  /\ x0 = x /\ vx2 = Null

ApplyNormalize ==
  /\ nx = Null
  /\ nx' = normalizedResult(x)
  /\ x' = candidateAfterNormalize(x)
  /\ UNCHANGED <<store, handlerVars, authVars, uploadVars, nnx, vnx, vx, cp, x0, vx2>>

ApplyNormalizeAgain ==
  /\ nx # Null /\ nnx = Null
  /\ nnx' = normalizedResult(nx)
  /\ nx' = candidateAfterNormalize(nx)
  /\ UNCHANGED <<store, handlerVars, authVars, uploadVars, x, vnx, vx, cp, x0, vx2>>

ApplyDetect ==
  /\ nx # Null /\ vnx = Null
  /\ vnx' = detectInvalidCodes(nx)
  /\ nx' = candidateAfterDetect(nx)
  /\ UNCHANGED <<store, handlerVars, authVars, uploadVars, x, nnx, vx, cp, x0, vx2>>

\* validation = detectInvalidCodes(resultJson), on the candidate as drawn
ApplyDetectInput ==
  /\ vx = Null
  /\ vx' = detectInvalidCodes(x)
  /\ x' = candidateAfterDetect(x)
  /\ UNCHANGED <<store, handlerVars, authVars, uploadVars, nx, nnx, vnx, cp, x0, vx2>>

\* detectInvalidCodes called again on the same candidate object
ApplyDetectInputAgain ==
  /\ vx # Null /\ vx2 = Null
  /\ vx2' = detectInvalidCodes(x)
  /\ x' = candidateAfterDetect(x)
  /\ UNCHANGED <<store, handlerVars, authVars, uploadVars, nx, nnx, vnx, vx, cp, x0>>

\* buildCorrectionPrompt(validation)
ApplyBuildCorrectionPrompt ==
  /\ vx # Null /\ cp = Null
  /\ cp' = [prompt |-> buildCorrectionPrompt(vx)]
  /\ UNCHANGED <<store, handlerVars, authVars, uploadVars, x, nx, nnx, vnx, vx, x0, vx2>>

NextPure ==
  \/ ApplyNormalize
  \/ ApplyNormalizeAgain
  \/ ApplyDetect
  \/ ApplyDetectInput
  \/ ApplyDetectInputAgain
  \/ ApplyBuildCorrectionPrompt

SpecPure == InitPure /\ [][NextPure]_vars

(***************************************************************************)
(* Specification of the normalizer over vocabularies: the lists the store  *)
(* is built from are drawn, with official descriptions that are made up,    *)
(* equal to what the model supplies, or empty; then a candidate is drawn    *)
(* and the pure functions are applied.                                      *)
(***************************************************************************)
DescriptionValues == {"Fiction / General", "Wrong text", ""}

BisacLists ==
  { << [code |-> "FIC000000", description |-> d1],
       [code |-> "FIC031000", description |-> d2] >> : d1, d2 \in DescriptionValues }

ThemaLists ==
  { MATERIAS_THEMA,
    << [code |-> "FB", description |-> ""], [code |-> "FH", description |-> "Fake"],
       [code |-> "FB", description |-> "Ficcion: general y literaria"] >> }

VocabularyCandidates ==
  { Candidate(<<"novela", "poesia">>,
              [EmptyClassifications EXCEPT ![p[1]][p[2]] = p[3]]) :
      p \in UNION { {<<s, t, items>> : t \in Tiers,
                                      items \in SeqsUpTo(ItemUniverse(s), MaxItems)}
                    : s \in {"bisac", "thema"} } }

InitVocabulary ==
  /\ store \in { BuildStoreFrom(ETIQUETAS, bisac, thema, MATERIAS_IBIC) :
                     bisac \in BisacLists, thema \in ThemaLists }
  /\ InitRequests
  /\ AuthIdle
  /\ UploadIdle
  /\ x \in VocabularyCandidates
  /\ nx = Null /\ nnx = Null /\ vnx = Null /\ vx = Null /\ cp = Null
  /\ x0 = x /\ vx2 = Null

SpecVocabulary == InitVocabulary /\ [][NextPure]_vars

(***************************************************************************)
(* Specification of AuthProvider: the provider is mounted, the user signs  *)
(* in and logs out at will, and Firebase answers in any order.              *)
(***************************************************************************)
InitAuthProvider ==
  /\ InitHandler
  /\ PureIdle
  /\ InitAuth
  /\ UploadIdle

SpecAuth == InitAuthProvider /\ [][NextAuth]_vars

(***************************************************************************)
(* Specification of the upload handler of the client.                      *)
(***************************************************************************)
SpecUpload == Init /\ [][NextUpload]_vars

(***************************************************************************)
(* Vocabulary of the specification, read off the static lists.             *)
(***************************************************************************)
ValidTags == {ETIQUETAS[i] : i \in DOMAIN ETIQUETAS}

SchemeList(s) ==
  CASE s = "bisac" -> MATERIAS_BISAC
    [] s = "thema" -> MATERIAS_THEMA
    [] OTHER -> MATERIAS_IBIC

ValidCodes(s) == {SchemeList(s)[i].code : i \in DOMAIN SchemeList(s)}

CodeToDescription(s, c) ==
  SchemeList(s)[CHOOSE i \in DOMAIN SchemeList(s) : SchemeList(s)[i].code = c].description

\* the normalization the specification describes, written out recursively
RECURSIVE KeptTags(_)
KeptTags(tags) ==
  IF tags = <<>> THEN <<>>
  ELSE (IF Head(tags) \in ValidTags THEN <<Head(tags)>> ELSE <<>>) \o KeptTags(Tail(tags))

RECURSIVE KeptItems(_, _)
KeptItems(items, s) ==
  IF items = <<>> THEN <<>>
  ELSE (IF Head(items).code \in ValidCodes(s)
          THEN << [ code |-> Head(items).code,
                    description |-> CodeToDescription(s, Head(items).code),
                    justification |-> Head(items).justification ] >>
          ELSE <<>>)
       \o KeptItems(Tail(items), s)

Answered(r) == response[r] # Null
Success(r) == Answered(r) /\ response[r].status = 200
Failure(r) == Answered(r) /\ response[r].status = 500

Accepts(e) == e.kind = "value" /\ e.readable /\ e.valid
Rejects(e) == e.kind = "value" /\ e.readable /\ ~e.valid
ShapedCandidate(e) == e.kind = "value" /\ e.shaped

\* some item of some tier of the value satisfies P
SomeItem(v, P(_, _)) ==
  \E s \in Schemes : \E t \in Tiers : \E i \in 1..Len(v.classifications[s][t]) :
    P(s, v.classifications[s][t][i])

(***************************************************************************)
(* C1: in every success (200) response, every tag belongs to ValidTags and *)
(* every classification item of every scheme and tier has a code of that    *)
(* scheme's valid-code set, whatever candidates the gateway returned.       *)
(***************************************************************************)
C1_OnlyValidCodesInSuccess ==
  \A r \in RequestIds :
    Success(r) =>
      /\ \A i \in 1..Len(response[r].json.tags) : response[r].json.tags[i] \in ValidTags
      /\ \A s \in Schemes : \A t \in Tiers :
           \A i \in 1..Len(response[r].json.classifications[s][t]) :
             response[r].json.classifications[s][t][i].code \in ValidCodes(s)

\* a success whose last candidate had an invalid tag and an invalid code, and
\* whose response still carries a tag and an item
C1_Witness ==
  \E r \in RequestIds :
    /\ Success(r)
    /\ \E i \in 1..Len(returned[r].tags) : returned[r].tags[i] \notin ValidTags
    /\ SomeItem(returned[r], LAMBDA s, it : it.code \notin ValidCodes(s))
    /\ SomeItem(response[r].json, LAMBDA s, it : TRUE)

(***************************************************************************)
(* C2: when all MAX_RETRIES gateway calls succeed and every candidate is   *)
(* rejected by the validator, the request is answered 200 and the tags and  *)
(* classifications of the response are the normalization of the last        *)
(* candidate.                                                               *)
(***************************************************************************)
AllRejected(r) ==
  /\ Len(log[r]) = MAX_RETRIES
  /\ \A k \in 1..MAX_RETRIES : Rejects(log[r][k])

C2_ExhaustionFallback ==
  \A r \in RequestIds :
    AllRejected(r) =>
      /\ Success(r)
      /\ response[r].json.tags = KeptTags(returned[r].tags)
      /\ \A s \in Schemes : \A t \in Tiers :
           response[r].json.classifications[s][t]
             = KeptItems(returned[r].classifications[s][t], s)

\* three rejected candidates, the last with one valid and one invalid tag: the
\* response keeps the valid one
C2_Witness ==
  \E r \in RequestIds :
    /\ AllRejected(r)
    /\ Success(r)
    /\ returned[r].tags = <<"novela", "poesia">>
    /\ response[r].json.tags = <<"novela">>

(***************************************************************************)
(* C3: if the candidate of attempt k is the first the validator accepts,   *)
(* the request is finished with a success and exactly k gateway calls were  *)
(* made, in every state from then on.                                       *)
(***************************************************************************)
C3_EarlyTermination ==
  \A r \in RequestIds : \A k \in 1..Len(log[r]) :
    Accepts(log[r][k]) =>
      /\ pc[r] = "done"
      /\ Success(r)
      /\ gatewayCalls[r] = k
      /\ Len(log[r]) = k

\* accepted at the second attempt, after one rejected candidate
C3_Witness ==
  \E r \in RequestIds :
    /\ Len(log[r]) = 2
    /\ Rejects(log[r][1])
    /\ Accepts(log[r][2])
    /\ gatewayCalls[r] = 2

(***************************************************************************)
(* C4: if the gateway call of attempt k throws or returns an empty text,   *)
(* no further gateway call is made and the request ends with an error,      *)
(* also when an earlier attempt had produced a parsed candidate.            *)
(***************************************************************************)
TransportFailure(e) == e.kind \in {"threw", "empty"}

C4_GatewayFailureIsFatal ==
  \A r \in RequestIds : \A k \in 1..Len(log[r]) :
    TransportFailure(log[r][k]) =>
      /\ pc[r] = "done"
      /\ Failure(r)
      /\ gatewayCalls[r] = k
      /\ Len(log[r]) = k

\* the second call fails after the first produced a candidate
C4_Witness ==
  \E r \in RequestIds :
    /\ Len(log[r]) = 2
    /\ Rejects(log[r][1])
    /\ TransportFailure(log[r][2])
    /\ resultJson[r] # Null
    /\ Failure(r)

WellFormedRequest(r) ==
  /\ request[r] # Null
  /\ request[r].method = "POST"
  /\ request[r].text.type = "string" /\ request[r].text.len > 0
  /\ request[r].wordCount.type = "number"

C6_InvalidCodesAreNeverAnError ==
  \A r \in RequestIds :
    WellFormedRequest(r) =>
      /\ (\A k \in 1..Len(log[r]) : ShapedCandidate(log[r][k]))
           => /\ Answered(r) => Success(r)
              /\ pc[r] = "done" => Success(r)
      /\ (Answered(r) /\ ~Success(r))
           => /\ Failure(r)
              /\ \E k \in 1..Len(log[r]) : ~ShapedCandidate(log[r][k])

\* three schema-shaped candidates, all rejected, and a success
C6_Witness ==
  \E r \in RequestIds :
    /\ WellFormedRequest(r)
    /\ AllRejected(r)
    /\ \A k \in 1..Len(log[r]) : ShapedCandidate(log[r][k])
    /\ Success(r)

Exhausted(r) ==
  /\ Success(r)
  /\ Len(log[r]) > 0
  /\ Rejects(log[r][Len(log[r])])

C8_AtMostMaxRetries ==
  \A r \in RequestIds :
    /\ gatewayCalls[r] <= MAX_RETRIES
    /\ pc[r] = "awaitGateway" =>
         /\ attempt[r] \in 1..MAX_RETRIES
         /\ gatewayCalls[r] = attempt[r]
         /\ Len(log[r]) = attempt[r] - 1
    /\ Exhausted(r) =>
         /\ gatewayCalls[r] = MAX_RETRIES
         /\ attempt[r] = MAX_RETRIES
         /\ AllRejected(r)

C8_Witness ==
  \E r \in RequestIds : Exhausted(r) /\ gatewayCalls[r] = MAX_RETRIES

C10_ValidatorAcceptsNormalized ==
  vnx # Null =>
    /\ vnx.isValid
    /\ vnx.invalidTags = <<>>
    /\ vnx.invalidBisac = <<>>
    /\ vnx.invalidThema = <<>>
    /\ vnx.invalidIbic = <<>>

\* the candidate had an invalid tag and an invalid code in every scheme
C10_Witness ==
  /\ vnx # Null
  /\ vnx.isValid
  /\ \E i \in 1..Len(x.tags) : x.tags[i] \notin ValidTags
  /\ \A s \in Schemes : \E t \in Tiers : \E i \in 1..Len(x.classifications[s][t]) :
       x.classifications[s][t][i].code \notin ValidCodes(s)

(***************************************************************************)
(* The vocabulary store as the specification names it.                     *)
(***************************************************************************)
StoreCodes(s) ==
  CASE s = "bisac" -> store.VALID_BISAC_CODES
    [] s = "thema" -> store.VALID_THEMA_CODES
    [] OTHER -> store.VALID_IBIC_CODES

StoreDescriptions(s) ==
  CASE s = "bisac" -> store.BISAC_MAP
    [] s = "thema" -> store.THEMA_MAP
    [] OTHER -> store.IBIC_MAP

\* the items of a tier that normalization keeps, as the model supplied them
RECURSIVE KeptAsSupplied(_, _)
KeptAsSupplied(items, s) ==
  IF items = <<>> THEN <<>>
  ELSE (IF Head(items).code \in StoreCodes(s) THEN <<Head(items)>> ELSE <<>>)
       \o KeptAsSupplied(Tail(items), s)

(***************************************************************************)
(* C11: for every classification item that normalization keeps, whatever   *)
(* official description the vocabulary has for its code and whatever        *)
(* description the model supplied, the output description is the official   *)
(* one, CodeToDescription(scheme)[code], and the item's code and            *)
(* justification are those of the input.                                    *)
(***************************************************************************)
C11_DescriptionOverwritten ==
  nx # Null =>
    \A s \in Schemes : \A t \in Tiers :
      LET kept == KeptAsSupplied(x.classifications[s][t], s)
          out == nx.classifications[s][t]
      IN  /\ Len(out) = Len(kept)
          /\ \A i \in 1..Len(out) :
               /\ out[i].code = kept[i].code
               /\ out[i].justification = kept[i].justification
               /\ out[i].description = StoreDescriptions(s)[out[i].code]

(***************************************************************************)
(* C12 as stated: normalization is a no-op on an already-valid result: for *)
(* every candidate the validator accepts, the normalized tags and           *)
(* classifications are equal to the candidate's.                            *)
(***************************************************************************)
C12_Original_NoOpOnValid ==
  (vx # Null /\ nx # Null /\ vx.isValid) =>
    /\ nx.tags = x.tags
    /\ nx.classifications = x.classifications

(***************************************************************************)
(* C12 amended: for every candidate the validator accepts, the normalized  *)
(* tags are the candidate's, every tier has the candidate's items in the    *)
(* same order with the same code and justification, and an item whose       *)
(* description already is the official one is unchanged; a description      *)
(* that is not the official one may be rewritten.                           *)
(***************************************************************************)
C12_NoOpOnValidUpToDescription ==
  (vx # Null /\ nx # Null /\ vx.isValid) =>
    /\ nx.tags = x.tags
    /\ \A s \in Schemes : \A t \in Tiers :
         LET in == x.classifications[s][t]
             out == nx.classifications[s][t]
         IN  /\ Len(out) = Len(in)
             /\ \A i \in 1..Len(out) :
                  /\ out[i].code = in[i].code
                  /\ out[i].justification = in[i].justification
                  /\ in[i].description = StoreDescriptions(s)[in[i].code]
                       => out[i] = in[i]

\* an accepted candidate with tags and two items in one tier, one of them with
\* a description the model made up, which normalization has rewritten
C12_Witness ==
  /\ vx # Null /\ nx # Null /\ vx.isValid
  /\ x.tags # <<>>
  /\ \E s \in Schemes : \E t \in Tiers :
       /\ Len(x.classifications[s][t]) = 2
       /\ x.classifications[s][t][1] # x.classifications[s][t][2]
       /\ nx.classifications[s][t] # x.classifications[s][t]

(***************************************************************************)
(* C13: for every candidate, detectInvalidCodes returns as invalidTags      *)
(* exactly the tags not in ValidTags, in input order, and for each scheme   *)
(* the codes of exactly the items of main ++ secondary ++ related, in that  *)
(* order, whose code is not in that scheme's valid-code set (a code of      *)
(* another scheme is invalid); with empty tag and tier arrays the four      *)
(* lists are empty.                                                         *)
(***************************************************************************)
RECURSIVE RejectedTags(_)
RejectedTags(tags) ==
  IF tags = <<>> THEN <<>>
  ELSE (IF Head(tags) \in ValidTags THEN <<>> ELSE <<Head(tags)>>)
       \o RejectedTags(Tail(tags))

RECURSIVE RejectedCodes(_, _)
RejectedCodes(items, s) ==
  IF items = <<>> THEN <<>>
  ELSE (IF Head(items).code \in ValidCodes(s) THEN <<>> ELSE <<Head(items).code>>)
       \o RejectedCodes(Tail(items), s)

AllTiers(v, s) ==
  v.classifications[s]["main"] \o v.classifications[s]["secondary"]
    \o v.classifications[s]["related"]

NothingToValidate(v) ==
  /\ v.tags = <<>>
  /\ \A s \in Schemes : AllTiers(v, s) = <<>>

C13_ValidatorReportsExactly ==
  vx # Null =>
    /\ vx.invalidTags = RejectedTags(x.tags)
    /\ vx.invalidBisac = RejectedCodes(AllTiers(x, "bisac"), "bisac")
    /\ vx.invalidThema = RejectedCodes(AllTiers(x, "thema"), "thema")
    /\ vx.invalidIbic = RejectedCodes(AllTiers(x, "ibic"), "ibic")
    /\ NothingToValidate(x) =>
         /\ vx.invalidTags = <<>> /\ vx.invalidBisac = <<>>
         /\ vx.invalidThema = <<>> /\ vx.invalidIbic = <<>>

\* THEMA has the IBIC-only code "FA" in its related tier and in its main
\* tier, and a valid item in between: both are reported, for THEMA only
C13_Witness ==
  /\ vx # Null
  /\ \A t \in Tiers : Len(x.classifications["thema"][t]) = 1
  /\ x.classifications["thema"]["main"][1].code = "FA"
  /\ x.classifications["thema"]["secondary"][1].code = "FH"
  /\ x.classifications["thema"]["related"][1].code = "FA"
  /\ vx.invalidThema = <<"FA", "FA">>
  /\ "FA" \in ValidCodes("ibic")

\* the candidate with nothing in it
C13_WitnessEmpty ==
  vx # Null /\ NothingToValidate(x) /\ vx.isValid

(***************************************************************************)
(* C14: in every ValidationResult that detectInvalidCodes produces,        *)
(* isValid is true if and only if invalidTags, invalidBisac, invalidThema   *)
(* and invalidIbic are all empty.                                           *)
(***************************************************************************)
IsValidIffAllEmpty(v) ==
  v.isValid <=> /\ v.invalidTags = <<>>
                /\ v.invalidBisac = <<>>
                /\ v.invalidThema = <<>>
                /\ v.invalidIbic = <<>>

C14_IsValidIffAllEmpty ==
  /\ vx # Null => IsValidIffAllEmpty(vx)
  /\ vnx # Null => IsValidIffAllEmpty(vnx)
  /\ \A r \in RequestIds : \A k \in 1..Len(validated[r]) :
       validated[r][k] # NotValidated => IsValidIffAllEmpty(validated[r][k])

\* only the tag list is not empty, and the result is not valid
C14_Witness ==
  /\ vx # Null
  /\ vx.invalidTags # <<>>
  /\ vx.invalidBisac = <<>> /\ vx.invalidThema = <<>> /\ vx.invalidIbic = <<>>
  /\ ~vx.isValid

(***************************************************************************)
(* C15: normalization only filters: the output tags are the input tags     *)
(* that are in ValidTags, in their order; each output tier of each scheme   *)
(* is the items of the same input tier of the same scheme whose code is in  *)
(* that scheme's valid set, in their order: nothing is added, replaced,     *)
(* duplicated or moved, and a tier may lose items, down to none.            *)
(***************************************************************************)
\* what identifies an item across normalization
Identity(items) ==
  [i \in 1..Len(items) |-> <<items[i].code, items[i].justification>>]

RECURSIVE ValidItems(_, _)
ValidItems(items, s) ==
  IF items = <<>> THEN <<>>
  ELSE (IF Head(items).code \in ValidCodes(s) THEN <<Head(items)>> ELSE <<>>)
       \o ValidItems(Tail(items), s)

C15_NormalizationOnlyFilters ==
  nx # Null =>
    /\ nx.tags = KeptTags(x.tags)
    /\ \A s \in Schemes : \A t \in Tiers :
         /\ Identity(nx.classifications[s][t])
              = Identity(ValidItems(x.classifications[s][t], s))
         /\ Len(nx.classifications[s][t]) <= Len(x.classifications[s][t])

\* a tier that keeps two different items in their order, another tier of the
\* same scheme that is emptied, and a tag dropped from between two kept ones
C15_Witness ==
  /\ nx # Null
  /\ \E s \in Schemes : \E t, u \in Tiers :
       /\ Len(nx.classifications[s][t]) = 2
       /\ nx.classifications[s][t][1].code # nx.classifications[s][t][2].code
       /\ x.classifications[s][u] # <<>>
       /\ nx.classifications[s][u] = <<>>

\* a tag dropped from between two kept ones
C15_WitnessTags ==
  /\ nx # Null
  /\ x.tags = <<"thriller", "poesia", "novela">>
  /\ nx.tags = <<"thriller", "novela">>

(***************************************************************************)
(* C16: for every ValidationResult, each of the four invalid-lists that is *)
(* not empty has its own labelled block in the correction prompt, and the   *)
(* block has every value of the list, verbatim and in order; a list that    *)
(* is empty has no block.                                                   *)
(***************************************************************************)
BlockLabels ==
  [ invalidTags  |-> "**Etiquetas rechazadas** (NO existen): ",
    invalidBisac |-> "**Codigos BISAC rechazados** (NO existen): ",
    invalidThema |-> "**Codigos THEMA rechazados** (NO existen): ",
    invalidIbic  |-> "**Codigos IBIC rechazados** (NO existen): " ]

\* the block of the list named f starts where its label is
BlockStarts(prompt, f) == {i \in 1..Len(prompt) : prompt[i] = BlockLabels[f]}

\* the block at position p lists the values, separated by ", "
BlockLists(prompt, p, values) ==
  /\ p + 2 * Len(values) - 1 <= Len(prompt)
  /\ \A i \in 1..Len(values) : prompt[p + 2 * i - 1] = values[i]
  /\ \A i \in 1..(Len(values) - 1) : prompt[p + 2 * i] = ", "

C16_CorrectionPromptComplete ==
  cp # Null =>
    \A f \in DOMAIN BlockLabels :
      IF vx[f] = <<>>
        THEN BlockStarts(cp.prompt, f) = {}
        ELSE /\ Cardinality(BlockStarts(cp.prompt, f)) = 1
             /\ \A p \in BlockStarts(cp.prompt, f) : BlockLists(cp.prompt, p, vx[f])

\* two rejected tags and a rejected IBIC code, nothing wrong in BISAC and
\* THEMA: two blocks
C16_Witness ==
  /\ cp # Null
  /\ Len(vx.invalidTags) = 2
  /\ vx.invalidBisac = <<>> /\ vx.invalidThema = <<>>
  /\ vx.invalidIbic # <<>>
  /\ BlockStarts(cp.prompt, "invalidTags") # {}
  /\ BlockStarts(cp.prompt, "invalidIbic") # {}
  /\ BlockStarts(cp.prompt, "invalidBisac") = {}

(***************************************************************************)
(* C17: on a success response rawText is the request's text in full, not   *)
(* the prefix that went into the prompt, and wordCount is the request's     *)
(* wordCount, whichever attempt produced the candidate returned.            *)
(***************************************************************************)
C17_SuccessEchoesRequest ==
  \A r \in RequestIds :
    Success(r) =>
      /\ response[r].json.rawText = request[r].text
      /\ response[r].json.rawText.len = request[r].text.len
      /\ response[r].json.wordCount = request[r].wordCount
      /\ {"rawText", "wordCount"} \subseteq response[r].json.members

\* a text longer than the prompt takes, answered at the second attempt: the
\* prompt has the prefix, the response the whole text
C17_Witness ==
  \E r \in RequestIds :
    /\ Success(r)
    /\ Len(log[r]) = 2
    /\ request[r].text.len > PROMPT_TEXT_LIMIT
    /\ \E i \in 1..Len(sent[r][2]) :
         sent[r][2][i] = "manuscrito[0.." \o ToString(PROMPT_TEXT_LIMIT) \o ")"
    /\ response[r].json.rawText.len = PROMPT_TEXT_LIMIT + 1

(***************************************************************************)
(* C18: error responses do not leak internals: whatever made the analysis  *)
(* fail (a gateway exception with any message, an empty response, a parse   *)
(* failure), at whatever attempt and after whatever candidates, the status  *)
(* and the body sent are the same fixed generic message, so any two         *)
(* failing runs are answered identically.                                   *)
(***************************************************************************)
GenericFailure ==
  [status |-> 500,
   body |-> "Error interno del servidor: No se pudo procesar el documento.",
   json |-> Null]

C18_ErrorsDoNotLeak ==
  /\ \A r \in RequestIds : Failure(r) => response[r] = GenericFailure
  /\ \A r1, r2 \in RequestIds :
       (Failure(r1) /\ Failure(r2)) => response[r1] = response[r2]

\* the third call is rejected with a message that names the quota of the key,
\* after two candidates were received
C18_Witness ==
  \E r \in RequestIds :
    /\ Failure(r)
    /\ Len(log[r]) = 3
    /\ Rejects(log[r][1]) /\ Rejects(log[r][2])
    /\ caught[r] = [message |-> "429 RESOURCE_EXHAUSTED: quota exceeded for key"]
    /\ resultJson[r] # Null

(***************************************************************************)
(* C20: attempt 1 sends exactly basePrompt; for every k with                *)
(* 1 <= k < MAX_RETRIES whose candidate is invalid, attempt k+1 sends       *)
(* exactly basePrompt followed by buildCorrectionPrompt of attempt k's      *)
(* ValidationResult, the feedback of the attempt right before and of no     *)
(* other.                                                                   *)
(***************************************************************************)
C20_PromptPerAttempt ==
  \A r \in RequestIds :
    /\ Len(sent[r]) = gatewayCalls[r]
    /\ Len(sent[r]) >= 1 => sent[r][1] = basePrompt(request[r].text)
    /\ \A k \in 1..Len(validated[r]) :
         (k < MAX_RETRIES /\ validated[r][k] # NotValidated /\ ~validated[r][k].isValid)
           => /\ Len(sent[r]) >= k + 1
              /\ sent[r][k + 1]
                   = basePrompt(request[r].text) \o buildCorrectionPrompt(validated[r][k])
    /\ \A k \in 2..Len(sent[r]) :
         /\ validated[r][k - 1] # NotValidated
         /\ ~validated[r][k - 1].isValid

\* three attempts: the first candidate had a rejected tag only, the second a
\* rejected BISAC code only, and the third prompt names the BISAC code and
\* not the tag
C20_Witness ==
  \E r \in RequestIds :
    /\ Len(sent[r]) = 3
    /\ validated[r][1].invalidTags = <<"poesia">> /\ validated[r][1].invalidBisac = <<>>
    /\ validated[r][2].invalidTags = <<>> /\ validated[r][2].invalidBisac = <<"FIC999999">>
    /\ BlockStarts(sent[r][3], "invalidBisac") # {}
    /\ BlockStarts(sent[r][3], "invalidTags") = {}
    /\ BlockStarts(sent[r][2], "invalidTags") # {}

(***************************************************************************)
(* C19: whitelist access: in every reachable state of AuthProvider, under  *)
(* any interleaving of signInWithGoogle, logout and onAuthStateChanged      *)
(* callbacks, the exposed user is null or a user whose lower-cased e-mail   *)
(* is in ALLOWED_EMAILS; a sign-in with an e-mail that is not in the list,  *)
(* or without e-mail, is signed out and never becomes the exposed user.     *)
(***************************************************************************)
Whitelisted(u) ==
  /\ u.hasEmail
  /\ toLowerCase(u.email) \in {ALLOWED_EMAILS[i] : i \in 1..Len(ALLOWED_EMAILS)}

\* nothing is pending: no popup, no undelivered change, no call in flight
AuthQuiescent ==
  /\ popups = 0 /\ authEvents = <<>> /\ signInResults = <<>>
  /\ \A c \in SignOutCallers : signOutsCalled[c] = 0 /\ signOutsResolved[c] = 0

\* a sign-out of the current user is under way: the listener or
\* signInWithGoogle has yet to see it, or a signOut call is in flight
SignOutUnderWay ==
  \/ \E i \in 1..Len(authEvents) : authEvents[i] = authUser
  \/ \E i \in 1..Len(signInResults) : signInResults[i] = authUser
  \/ \E c \in SignOutCallers : signOutsCalled[c] > 0

CorrectionHead == "# CORRECCION REQUERIDA - CODIGOS RECHAZADOS"

\* the number of correction texts in a prompt
CorrectionBlocks(prompt) ==
  Cardinality({i \in 1..Len(prompt) : prompt[i] = CorrectionHead})

StartsWith(prompt, base) ==
  /\ Len(prompt) >= Len(base)
  /\ SubSeq(prompt, 1, Len(base)) = base

C21_Original_CumulativeContext ==
  \A r \in RequestIds : \A k \in 1..Len(sent[r]) :
    /\ StartsWith(sent[r][k], basePrompt(request[r].text))
    /\ CorrectionBlocks(sent[r][k]) = k - 1

(***************************************************************************)
(* C21, amended: the correction text is appended to the original prompt,   *)
(* never substituted for it, and it does not accumulate: the prompt sent   *)
(* at attempt 1 is the original prompt with no correction text, and the    *)
(* prompt sent at attempt k > 1 is the original prompt followed by exactly  *)
(* one correction text, whose blocks are those of the lists rejected at    *)
(* attempt k-1.                                                            *)
(***************************************************************************)
C21_OneCorrectionPerRetry ==
  \A r \in RequestIds : \A k \in 1..Len(sent[r]) :
    /\ StartsWith(sent[r][k], basePrompt(request[r].text))
    /\ CorrectionBlocks(basePrompt(request[r].text)) = 0
    /\ CorrectionBlocks(sent[r][k]) = IF k = 1 THEN 0 ELSE 1
    /\ k > 1 =>
         \A f \in DOMAIN BlockLabels :
           IF validated[r][k - 1][f] = <<>>
             THEN BlockStarts(sent[r][k], f) = {}
             ELSE /\ Cardinality(BlockStarts(sent[r][k], f)) = 1
                  /\ \A p \in BlockStarts(sent[r][k], f) :
                       BlockLists(sent[r][k], p, validated[r][k - 1][f])

\* the third prompt was sent after two rejected candidates and has one
\* correction text, longer than the original prompt
C21_Witness ==
  \E r \in RequestIds :
    /\ Len(sent[r]) = 3
    /\ Rejects(log[r][1]) /\ Rejects(log[r][2])
    /\ validated[r][1] # validated[r][2]
    /\ CorrectionBlocks(sent[r][3]) = 1
    /\ Len(sent[r][3]) > Len(basePrompt(request[r].text))

(***************************************************************************)
(* C22: attempts are strictly sequential within one request: at most one   *)
(* gateway call of a request is outstanding at any time, and the call of    *)
(* attempt k+1 has been issued only if the response of attempt k came back, *)
(* was parsed and was validated.                                            *)
(***************************************************************************)
\* gateway calls issued and not yet settled
Outstanding(r) == gatewayCalls[r] - Len(log[r])

C22_SequentialAttempts ==
  \A r \in RequestIds :
    /\ Outstanding(r) \in {0, 1}
    /\ Outstanding(r) = 1 <=> pc[r] = "awaitGateway"
    /\ Len(sent[r]) = gatewayCalls[r]
    /\ \A k \in 1..(gatewayCalls[r] - 1) :
         /\ Len(log[r]) >= k /\ Len(validated[r]) >= k
         /\ log[r][k].kind = "value" /\ log[r][k].readable
         /\ validated[r][k] # NotValidated

\* the third call is outstanding, the first two came back and were validated
C22_Witness ==
  \E r \in RequestIds :
    /\ gatewayCalls[r] = 3 /\ Outstanding(r) = 1
    /\ Len(validated[r]) = 2
    /\ ~validated[r][1].isValid /\ ~validated[r][2].isValid

(***************************************************************************)
(* C23: request independence: under any interleaving of two concurrent     *)
(* requests at their gateway suspend points, the attempt count, the        *)
(* prompts sent, the response and the locals (currentPrompt, candidate,     *)
(* validation) of each request are those of that request run alone with     *)
(* the same gateway outcomes.                                               *)
(***************************************************************************)
\* a request run alone: where the handler is after the loop condition
AloneTop(req, prompt, res, val, att, prompts) ==
  IF att < MAX_RETRIES
    THEN [attempt |-> att + 1, currentPrompt |-> prompt, resultJson |-> res,
          validation |-> val, response |-> Null, sent |-> Append(prompts, prompt)]
    ELSE [attempt |-> att, currentPrompt |-> prompt, resultJson |-> res,
          validation |-> val, sent |-> prompts,
          response |-> IF res = Null THEN GenericFailure
                       ELSE successResponse(normalizedResult(res), req)]

\* a request run alone: where the handler is before the first gateway outcome
AloneStart(req) ==
  LET none == [attempt |-> 0, currentPrompt |-> <<>>, resultJson |-> Null,
               validation |-> Null, response |-> Null, sent |-> <<>>] IN
  IF req.method # "POST" THEN [none EXCEPT !.response = methodNotAllowed]
  ELSE IF Falsy(req.text) \/ req.wordCount.type # "number"
    THEN [none EXCEPT !.response = badRequest]
  ELSE IF req.text.type # "string" THEN [none EXCEPT !.response = GenericFailure]
  ELSE AloneTop(req, basePrompt(req.text), Null, Null, 0, <<>>)

\* a request run alone: where the handler is after one more gateway outcome
AloneStep(req, at, got) ==
  IF "threw" \in DOMAIN got THEN [at EXCEPT !.response = GenericFailure]
  ELSE IF got.empty \/ ~got.wellFormed THEN [at EXCEPT !.response = GenericFailure]
  ELSE IF ~(CoreMembers \subseteq got.value.members)
    THEN [at EXCEPT !.resultJson = got.value, !.response = GenericFailure]
  ELSE LET val == detectInvalidCodes(got.value) IN
    IF val.isValid
      THEN [at EXCEPT !.resultJson = got.value, !.validation = val,
                      !.response = successResponse(normalizedResult(got.value), req)]
      ELSE AloneTop(req,
                    IF at.attempt < MAX_RETRIES
                      THEN basePrompt(req.text) \o buildCorrectionPrompt(val)
                      ELSE at.currentPrompt,
                    got.value, val, at.attempt, at.sent)

RECURSIVE RunAlone(_, _)
RunAlone(req, outcomes) ==
  IF outcomes = <<>>
    THEN AloneStart(req)
    ELSE AloneStep(req, RunAlone(req, SubSeq(outcomes, 1, Len(outcomes) - 1)),
                   outcomes[Len(outcomes)])

C23_RequestIndependence ==
  \A r \in RequestIds :
    IF request[r] = Null
      THEN /\ attempt[r] = 0 /\ sent[r] = <<>> /\ response[r] = Null
           /\ currentPrompt[r] = <<>> /\ resultJson[r] = Null /\ validation[r] = Null
      ELSE LET alone == RunAlone(request[r], received[r]) IN
           /\ attempt[r] = alone.attempt
           /\ sent[r] = alone.sent
           /\ response[r] = alone.response
           /\ currentPrompt[r] = alone.currentPrompt
           /\ resultJson[r] = alone.resultJson
           /\ validation[r] = alone.validation

\* both requests are suspended at their second gateway call at the same
\* time, with different texts and different rejected candidates
C23_Witness ==
  /\ \A r \in RequestIds : pc[r] = "awaitGateway" /\ attempt[r] = 2
  /\ request["r1"] # request["r2"]
  /\ received["r1"] # received["r2"]
  /\ currentPrompt["r1"] # currentPrompt["r2"]

\* both requests were answered, one with a result and one with an error
C23_WitnessAnswered ==
  /\ Success("r1") /\ Failure("r2")
  /\ Len(received["r1"]) = 3 /\ Len(received["r2"]) = 2

C24_WitnessFailure ==
  \E r \in RequestIds :
    /\ Failure(r)
    /\ Len(corrections[r]) = 1

(***************************************************************************)
(* C25: neither detectInvalidCodes nor the normalization modifies the      *)
(* candidate it is given: after any of these calls the candidate has the    *)
(* tags it had, and every item of every tier has the code, description and  *)
(* justification it had; and detectInvalidCodes called again on the same    *)
(* candidate returns the same ValidationResult.                             *)
(***************************************************************************)
SameItems(a, b) ==
  /\ Len(a) = Len(b)
  /\ \A i \in 1..Len(a) :
       /\ a[i].code = b[i].code
       /\ a[i].description = b[i].description
       /\ a[i].justification = b[i].justification

RetriedAttempts(r) ==
  {k \in 1..Len(validated[r]) :
     /\ k < MAX_RETRIES
     /\ validated[r][k] # NotValidated
     /\ ~validated[r][k].isValid}

C26_CorrectionOnlyBeforeRetry ==
  \A r \in RequestIds :
    /\ \A i \in 1..Len(corrections[r]) :
         /\ corrections[r][i].validation.isValid = FALSE
         /\ corrections[r][i].attempt < MAX_RETRIES
         /\ corrections[r][i].attempt \in RetriedAttempts(r)
         /\ corrections[r][i].validation = validated[r][corrections[r][i].attempt]
    /\ Len(corrections[r]) = Cardinality(RetriedAttempts(r))

\* three candidates were rejected: the builder ran after the first and the
\* second, and not after the third
C26_Witness ==
  \E r \in RequestIds :
    /\ AllRejected(r)
    /\ pc[r] = "done"
    /\ Len(corrections[r]) = 2
    /\ corrections[r][1].attempt = 1 /\ corrections[r][2].attempt = 2

\* the second candidate was accepted: the builder ran once
C26_WitnessAccepted ==
  \E r \in RequestIds :
    /\ Len(log[r]) = 2 /\ Rejects(log[r][1]) /\ Accepts(log[r][2])
    /\ Len(corrections[r]) = 1

(***************************************************************************)
(* C27: the success response is built from the most recent candidate only: *)
(* its title, tags and classifications are the title and the normalization  *)
(* of the tags and classifications of the last candidate the gateway        *)
(* returned, and no title, tag or item of an earlier candidate is in the    *)
(* response unless the last candidate has it too.                           *)
(***************************************************************************)
LastCandidate(r) == received[r][Len(received[r])].value

EarlierCandidates(r) == {received[r][j].value : j \in 1..(Len(received[r]) - 1)}

ItemsOf(v) ==
  UNION {SetOf(v.classifications[s][t]) : s \in Schemes, t \in Tiers}

CodesOf(v) == {it.code : it \in ItemsOf(v)}

C27_SuccessFromLastCandidate ==
  \A r \in RequestIds :
    Success(r) =>
      /\ Len(received[r]) = Len(log[r])
      /\ response[r].json.title = LastCandidate(r).title
      /\ response[r].json.tags = KeptTags(LastCandidate(r).tags)
      /\ \A s \in Schemes : \A t \in Tiers :
           response[r].json.classifications[s][t]
             = KeptItems(LastCandidate(r).classifications[s][t], s)
      /\ \A earlier \in EarlierCandidates(r) :
           /\ response[r].json.title = earlier.title
                => LastCandidate(r).title = earlier.title
           /\ SetOf(response[r].json.tags) \cap SetOf(earlier.tags)
                \subseteq SetOf(LastCandidate(r).tags)
           /\ CodesOf(response[r].json) \cap CodesOf(earlier)
                \subseteq CodesOf(LastCandidate(r))

\* the first candidate had another title, a valid tag and a valid code and
\* was rejected; the second has none of the three and was accepted
C27_Witness ==
  \E r \in RequestIds :
    /\ Success(r)
    /\ Len(log[r]) = 2 /\ Rejects(log[r][1]) /\ Accepts(log[r][2])
    /\ received[r][1].value.title = "Borrador"
    /\ "thriller" \in SetOf(received[r][1].value.tags)
    /\ "FIC000000" \in CodesOf(received[r][1].value)
    /\ response[r].json.title = "Titulo"
    /\ response[r].json.tags = <<"novela">>
    /\ CodesOf(response[r].json) = {}

(***************************************************************************)
(* C28: a request whose method is not POST is answered 405, and a POST     *)
(* whose text is missing or empty, or whose wordCount is not a number, is   *)
(* answered 400; in both cases the gateway is never invoked and no          *)
(* analysis result is returned.                                             *)
(***************************************************************************)
TextMissingOrEmpty(req) ==
  \/ req.text.type = "undefined"
  \/ req.text.type = "string" /\ req.text.len = 0

RejectedUpFront(r, status) ==
  /\ pc[r] = "done"
  /\ response[r] # Null
  /\ response[r].status = status
  /\ response[r].json = Null
  /\ gatewayCalls[r] = 0 /\ sent[r] = <<>> /\ log[r] = <<>>
  /\ attempt[r] = 0 /\ resultJson[r] = Null

C28_RejectedBeforeAnyModelCall ==
  \A r \in RequestIds :
    request[r] # Null =>
      /\ request[r].method # "POST" => RejectedUpFront(r, 405)
      /\ (/\ request[r].method = "POST"
          /\ (TextMissingOrEmpty(request[r]) \/ request[r].wordCount.type # "number"))
           => RejectedUpFront(r, 400)

\* a POST with an empty text and a numeric wordCount was answered 400
C28_Witness ==
  \E r \in RequestIds :
    /\ request[r] # Null
    /\ request[r].method = "POST"
    /\ request[r].text = JsString(0)
    /\ request[r].wordCount.type = "number"
    /\ response[r].status = 400

\* a GET with a good body was answered 405
C28_WitnessMethod ==
  \E r \in RequestIds :
    /\ request[r] # Null
    /\ request[r].method = "GET"
    /\ request[r].text = JsString(1200) /\ request[r].wordCount.type = "number"
    /\ response[r].status = 405

\* a POST with a text and a wordCount that is a string was answered 400
C28_WitnessWordCount ==
  \E r \in RequestIds :
    /\ request[r] # Null
    /\ request[r].method = "POST"
    /\ request[r].text = JsString(1200) /\ request[r].wordCount.type = "string"
    /\ response[r].status = 400

(***************************************************************************)
(* C29: every analysis request terminates with exactly one response: if    *)
(* every gateway call eventually returns or fails, a request that was       *)
(* received is eventually answered; the answer is one of 405, 400, 200 and  *)
(* 500 and is sent once; and after it the handler issues no gateway call    *)
(* and sends nothing more.                                                  *)
(***************************************************************************)
AnsweredOnce(r) ==
  /\ pc[r] = "done"
  /\ sends[r] = 1
  /\ response[r] # Null
  /\ response[r].status \in {405, 400, 200, 500}
  /\ Outstanding(r) = 0

NothingAfterTheResponse(r) ==
  pc[r] = "done" =>
    /\ pc'[r] = "done"
    /\ sends'[r] = sends[r]
    /\ response'[r] = response[r]
    /\ gatewayCalls'[r] = gatewayCalls[r]
    /\ sent'[r] = sent[r]

C29_TerminatesWithOneResponse ==
  /\ \A r \in RequestIds : (request[r] # Null) ~> AnsweredOnce(r)
  /\ [](\A r \in RequestIds :
          /\ sends[r] <= 1
          /\ sends[r] = 1 <=> pc[r] = "done"
          /\ pc[r] = "done" => AnsweredOnce(r))
  /\ [][\A r \in RequestIds : NothingAfterTheResponse(r)]_vars

\* a request was answered once, with a 200, after three gateway calls
C29_Witness ==
  \E r \in RequestIds :
    /\ AnsweredOnce(r)
    /\ gatewayCalls[r] = MAX_RETRIES
    /\ response[r].status = 200

\* a request is suspended at its third gateway call, not yet answered
C29_WitnessPending ==
  \E r \in RequestIds :
    /\ request[r] # Null /\ pc[r] = "awaitGateway" /\ sends[r] = 0
    /\ gatewayCalls[r] = MAX_RETRIES

(***************************************************************************)
(* C30: a single analysis is in flight on the client: while a run of       *)
(* handleFileUpload is pending no action on the FileUploader (file          *)
(* selection or drag-and-drop) starts a second run, so that isLoading is    *)
(* true and analysisResult is not written for as long as a run is pending.  *)
(***************************************************************************)
PendingRuns == {i \in 1..Len(runs) : runs[i].stage # "done"}

C30_SingleAnalysisInFlight ==
  /\ Cardinality(PendingRuns) <= 1
  /\ PendingRuns # {} => /\ isLoading
                         /\ disabled
                         /\ analysisResult = Null

====
